---------------------------- MODULE Spec2Model ----------------------------
(***************************************************************************)
(* Model of the DragonOS text console (kernel/src/libs/lib_ui/textui.rs):  *)
(* the TextuiWindow ring buffer of virtual lines, its character state      *)
(* machine (printable, newline, tab, backspace, NUL, CR), the translation  *)
(* of virtual lines to physical rows used when rendering, and the          *)
(* textui_putstr router that feeds a string to the current window under    *)
(* the window's spin lock.                                                 *)
(*                                                                         *)
(* Indices are 0-based as in the source: vlines is a function over         *)
(* 0..vline_sum-1 and chars a function over 0..chars_per_line-1.           *)
(* All windows are chromatic (WindowFlag::TEXTUI_CHROMATIC is the only     *)
(* flag ever passed to TextuiWindow::new), so the todo!() branches of the  *)
(* plain-text mode are not modelled.                                       *)
(***************************************************************************)
EXTENDS Integers, Sequences, FiniteSets, TLC

VARIABLES
    win,          \* the TextuiWindow behind current_window
    actual_line,  \* TextUiFramework.actual_line: number of visible rows
    written,      \* characters the window state machine has processed with output enabled
    prev,         \* the window before the last character operation
    op,           \* the last character operation's arguments
    ret,          \* what the last character operation returned
    drawn,        \* the renders the last character operation issued, in order
    sent,         \* the bytes the last character operation sent to the serial port
    halted,       \* a render addressed a row outside the frame buffer and the kernel faulted
    pc,           \* per execution context: position inside textui_putstr
    todo,         \* per execution context: characters of its string not yet processed
    color,        \* per execution context: the call's <<fr_color, bk_color>>
    lock,         \* holder of the current window's SpinLock, 0 when free
    enable,       \* ENABLE_PUT_TO_WINDOW
    log,          \* every character fed to the window by textui_putstr, in order
    framework,    \* __TEXTUI_FRAMEWORK: NoFramework, or the console stored
    is_init,      \* TEXTUI_IS_INIT
    ipc,          \* per execution context: position inside textui_framwork_init
    created,      \* the contexts that have constructed and stored a console
    fc,           \* the last FontColor made, how it was made, and the u32 read from it
    px,           \* the last glyph row rendered: renderer, row mask, colours, pixels
    metadata,     \* the buf_info of TextUiFramework.metadata: the frame buffer in use
    mwriter,      \* holder of the write lock of metadata's RwLock, "free" when free
    chg,          \* the call of TextUiFramework::change: position, argument, buffers read
    rnd,          \* the render of one character cell: position, glyph row, metadata values read
    slock,        \* holder of the double buffer's SpinLock, "free" when free
    id_bmp,       \* InnerLoopManager.id_bmp: per loop id, whether it is allocated
    devname,      \* InnerLoopManager.devname: per loop id, <<>> or <<the DevName recorded>>
    mgr,          \* holder of LoopManager.inner's SpinLock, 0 when free
    lc,           \* per execution context: its call on the loop subsystem and the call's position
    held,         \* the loop ids handed out by alloc_id with no free_id of them since
    attempts,     \* the creation attempts loop_init has completed
    read_only,    \* LoopDeviceInner.read_only of the loop device written to
    dlock,        \* holder of LoopDevice.inner's SpinLock, 0 when free
    last_set      \* the argument of the set_read_only call that last wrote the flag

vars == <<win, actual_line, written, prev, op, ret, drawn, sent, halted,
          pc, todo, color, lock, enable, log, framework, is_init, ipc, created, fc, px,
          metadata, mwriter, chg, rnd, slock,
          id_bmp, devname, mgr, lc, held, attempts, read_only, dlock, last_set>>

winVars == <<win, actual_line, written, prev, op, ret, drawn, sent, halted>>
initVars == <<framework, is_init, ipc, created>>
rndVars == <<px, mwriter, chg, rnd, slock>>
fbVars == <<metadata, rndVars>>
mgrVars == <<id_bmp, devname, mgr, held>>
devVars == <<read_only, dlock, last_set>>
loopVars == <<mgrVars, lc, attempts, devVars>>
strVars == <<pc, todo, color, lock, enable, log, initVars, fc, fbVars, loopVars>>

---------------------------------------------------------------------------
(* Bounds of the exploration *)

\* longest sequence of enabled characters explored from a fresh window
MaxLen == 3
\* largest chars_per_line of the generic window geometries
MaxChars == 3
\* largest vline_sum of the generic window geometries
MaxLines == 3
\* longest string handed to one textui_putstr call
MaxStr == 2

---------------------------------------------------------------------------
(* Characters and colours *)

None  == "None"     \* Option<char>::None
NUL   == "NUL"      \* '\0'
CR    == "CR"       \* '\r'
LF    == "LF"       \* '\n'
TAB   == "TAB"      \* '\t'
BS    == "BS"       \* '\x08'
SPACE == " "

BLACK == 0
WHITE == 16777215
TabStop == 8

OK     == "Ok"
EINVAL == "EINVAL"
PANIC  == "panic"    \* the kernel panicked inside the operation

Printable == {"A", "B", "C", "D", "E", "F", "G"}
Controls  == {NUL, CR, LF, TAB, BS}

\* the colour arguments a caller passes: <<frcolor, bkcolor>>
ColorPairs == {<<WHITE, BLACK>>, <<BLACK, WHITE>>}

---------------------------------------------------------------------------
(* Value types *)

\* LineId::check and LineIndex::check
Check(v, max) == v < max /\ v >= 0

\* the cell TextuiVlineChromatic::new pushes and textui_new_line resets to
BlankChar == [c |-> None, frcolor |-> BLACK, bkcolor |-> BLACK]

TextuiVlineChromaticNew(char_num) ==
    [chars |-> [i \in 0 .. char_num - 1 |-> BlankChar], index |-> 0]

TextuiWindowNew(vlines_num, chars_num) ==
    [vline_sum       |-> vlines_num,
     vlines_used     |-> 1,
     top_vline       |-> 0,
     vlines          |-> [v \in 0 .. vlines_num - 1 |-> TextuiVlineChromaticNew(chars_num)],
     vline_operating |-> 0,
     chars_per_line  |-> chars_num]

\* a result of a window operation: the window left behind, the value returned
\* and the renders issued
Res(w, r, d) == [win |-> w, ret |-> r, drawn |-> d]

\* "let r be v in F(r)": v is evaluated once, then used
Then(v, F(_)) == CHOOSE y \in {F(r) : r \in {v}} : TRUE

---------------------------------------------------------------------------
(* Rendering: textui_refresh_characters and textui_refresh_vlines           *)
(* A render is recorded as the virtual line drawn, the physical row the     *)
(* code computed for it, and the cells start .. start+count-1 drawn there.  *)

\* the physical row textui_refresh_characters computes for a virtual line
ActualLineId(w, actual_line_sum, vline_id) ==
    LET d == vline_id - w.top_vline
    IN  IF d < 0 THEN d + actual_line_sum ELSE d

\* faulty variant of TextuiRefreshCharacters: a request outside the window is
\* skipped and reported as done
TextuiRefreshCharactersSilent(w, actual_line_sum, vline_id, start, count) ==
    IF ~Check(vline_id, w.vline_sum) \/ start + count > w.chars_per_line
    THEN [ret |-> OK, drawn |-> <<>>]
    ELSE IF count > 0 /\ start < 0
    THEN [ret |-> PANIC, drawn |-> <<>>]
    ELSE [ret |-> OK,
          drawn |-> IF count > 0
                    THEN << [by    |-> "characters",
                             vline |-> vline_id,
                             row   |-> ActualLineId(w, actual_line_sum, vline_id),
                             start |-> start,
                             count |-> count] >>
                    ELSE <<>>]

\* textui_refresh_characters: the bounds check, then the cells' renders.
\* It changes nothing in the window. The check has no lower bound on start:
\* a negative start that passes it indexes chars out of bounds, which panics.
TextuiRefreshCharacters(w, actual_line_sum, vline_id, start, count) ==
    IF ~Check(vline_id, w.vline_sum) \/ start + count > w.chars_per_line
    THEN [ret |-> EINVAL, drawn |-> <<>>]
    ELSE IF count > 0 /\ start < 0
    THEN [ret |-> PANIC, drawn |-> <<>>]
    ELSE [ret |-> OK,
          drawn |-> IF count > 0
                    THEN << [by    |-> "characters",
                             vline |-> vline_id,
                             row   |-> ActualLineId(w, actual_line_sum, vline_id),
                             start |-> start,
                             count |-> count] >>
                    ELSE <<>>]

\* textui_refresh_vline: the whole line; its renders are marked as such
TextuiRefreshVline(w, actual_line_sum, vline_id) ==
    Then(TextuiRefreshCharacters(w, actual_line_sum, vline_id, 0, w.chars_per_line),
         LAMBDA r : [ret |-> r.ret,
                     drawn |-> [i \in 1 .. Len(r.drawn) |->
                                   [r.drawn[i] EXCEPT !.by = "vline"]]])

\* the virtual lines textui_refresh_vlines visits, in order: start up to the
\* end of the ring, then the rest from line 0
RefreshOrder(w, start, count) ==
    LET stop   == IF w.vline_sum < start + count THEN w.vline_sum ELSE start + count
        first  == IF stop > start THEN stop - start ELSE 0
        rest   == IF count - first > 0 THEN count - first ELSE 0
    IN  [i \in 1 .. first |-> start + i - 1] \o [i \in 1 .. rest |-> i - 1]

\* the renders of ids[k..], stopping at the first line whose refresh fails
RECURSIVE RefreshEach(_, _, _, _, _)
RefreshEach(w, actual_line_sum, ids, k, acc) ==
    IF k > Len(ids) THEN [ret |-> OK, drawn |-> acc]
    ELSE Then(TextuiRefreshVline(w, actual_line_sum, ids[k]), LAMBDA r :
             IF r.ret # OK THEN [ret |-> r.ret, drawn |-> acc]
             ELSE RefreshEach(w, actual_line_sum, ids, k + 1, acc \o r.drawn))

TextuiRefreshVlines(w, actual_line_sum, start, count) ==
    RefreshEach(w, actual_line_sum, RefreshOrder(w, start, count), 1, <<>>)

---------------------------------------------------------------------------
(* The window state machine *)

\* faulty variant of NextLineId: no wrap to line 0 past the last line
NextLineIdNoWrap(w, id) == id + 1

\* the line after id in the ring: id + 1, or 0 past the last line
NextLineId(w, id) == IF Check(id + 1, w.vline_sum) THEN id + 1 ELSE 0

\* faulty variant of PrevLineId: no wrap to the last line before line 0
PrevLineIdNoWrap(w, id) == id - 1

\* the line before id in the ring: id - 1, or the last line before line 0
PrevLineId(w, id) == IF id - 1 < 0 THEN w.vline_sum - 1 ELSE id - 1

\* faulty variant of ScrollNeeded: scrolls one newline too late
ScrollNeededLate(w, actual_line_sum) == w.vlines_used > actual_line_sum

\* textui_new_line scrolls when every visible row is in use
ScrollNeeded(w, actual_line_sum) == w.vlines_used = actual_line_sum

\* faulty variant of ScrollBackNeeded: also scrolls back a screen exactly full
ScrollBackNeededFull(w, actual_line_sum) == w.vlines_used >= actual_line_sum

\* a backspace at column 0 moves the top line back when more lines are in use
\* than the screen has rows
ScrollBackNeeded(w, actual_line_sum) == w.vlines_used > actual_line_sum

\* faulty variant of LineFull: the new line starts one column too early
LineFullEarly(w, line_index) == ~Check(line_index, w.chars_per_line - 2)

\* true_textui_putchar_window starts a new line after writing column line_index
LineFull(w, line_index) == ~Check(line_index, w.chars_per_line - 1)

\* faulty variant of SpaceToPrint: a full tab stop whatever the column
SpaceToPrintFixed(index) == TabStop

\* the number of spaces a tab at column index prints
SpaceToPrint(index) == TabStop - (index % TabStop)

\* textui_new_line
TextuiNewLine(w, actual_line_sum) ==
    LET vop  == NextLineId(w, w.vline_operating)
        w1   == [w EXCEPT !.vline_operating = vop,
                          !.vlines[vop] = TextuiVlineChromaticNew(w.chars_per_line)]
    IN  IF ScrollNeeded(w1, actual_line_sum)
        THEN LET top == NextLineId(w1, w1.top_vline)
                 w2  == [w1 EXCEPT !.top_vline = top]
             IN  Then(TextuiRefreshVlines(w2, actual_line_sum, top, actual_line_sum),
                      LAMBDA r : Res(w2, r.ret, r.drawn))
        ELSE Res([w1 EXCEPT !.vlines_used = @ + 1], OK, <<>>)

\* true_textui_putchar_window: store, advance the column, render the cell,
\* and start a new line when the column written was the last one
TrueTextuiPutcharWindow(w, actual_line_sum, character, frcolor, bkcolor) ==
    LET vop   == w.vline_operating
        index == w.vlines[vop].index
        w1    == [w EXCEPT
                    !.vlines[vop].chars =
                        IF index \in DOMAIN @
                        THEN [@ EXCEPT ![index] = [c |-> character,
                                                   frcolor |-> frcolor,
                                                   bkcolor |-> bkcolor]]
                        ELSE @,
                    !.vlines[vop].index = index + 1]
    IN  Then(TextuiRefreshCharacters(w1, actual_line_sum, vop, index, 1), LAMBDA r :
            IF r.ret # OK THEN Res(w1, r.ret, r.drawn)
            ELSE IF LineFull(w, index)
            THEN Then(TextuiNewLine(w1, actual_line_sum), LAMBDA n :
                     Res(n.win, n.ret, r.drawn \o n.drawn))
            ELSE Res(w1, OK, r.drawn))

\* the tab's loop: space_to_print spaces through true_textui_putchar_window,
\* given up at the first one that fails
RECURSIVE PutSpaces(_, _, _, _, _, _)
PutSpaces(w, actual_line_sum, space_to_print, frcolor, bkcolor, acc) ==
    IF space_to_print = 0 THEN Res(w, OK, acc)
    ELSE Then(TrueTextuiPutcharWindow(w, actual_line_sum, SPACE, frcolor, bkcolor),
              LAMBDA r :
                  IF r.ret # OK THEN Res(r.win, r.ret, acc \o r.drawn)
                  ELSE PutSpaces(r.win, actual_line_sum, space_to_print - 1,
                                 frcolor, bkcolor, acc \o r.drawn))

\* the '\t' branch of textui_putchar_window
PutTab(w, actual_line_sum, frcolor, bkcolor) ==
    LET index == w.vlines[w.vline_operating].index
    IN  PutSpaces(w, actual_line_sum, SpaceToPrint(index), frcolor, bkcolor, <<>>)

\* faulty variant of BlankedCell: the cell keeps the background colour it had
BlankedCellKeepsBackground(v_char, bkcolor) == [v_char EXCEPT !.c = SPACE]

\* the cell a backspace steps back onto: a space on the backspace's background
\* colour; the foreground colour stays
BlankedCell(v_char, bkcolor) == [v_char EXCEPT !.c = SPACE, !.bkcolor = bkcolor]

\* the '\x08' branch of textui_putchar_window
PutBackspace(w, actual_line_sum, bkcolor) ==
    LET vop == w.vline_operating
        tmp == w.vlines[vop].index - 1
        w1  == [w EXCEPT !.vlines[vop].index = tmp]
    IN  IF tmp >= 0
        THEN LET w2 == [w1 EXCEPT
                          !.vlines[vop].chars =
                              IF tmp \in DOMAIN @
                              THEN [@ EXCEPT ![tmp] = BlankedCell(@, bkcolor)]
                              ELSE @]
             IN  Then(TextuiRefreshCharacters(w2, actual_line_sum, vop, tmp, 1),
                      LAMBDA r : Res(w2, r.ret, r.drawn))
        ELSE LET nvop == PrevLineId(w, vop)
                 top  == IF ScrollBackNeeded(w, actual_line_sum)
                         THEN PrevLineId(w, w.top_vline)
                         ELSE w.top_vline
                 w2   == [w1 EXCEPT
                            !.vlines[vop] = TextuiVlineChromaticNew(w.chars_per_line),
                            !.vline_operating = nvop,
                            !.top_vline = top,
                            !.vlines_used = @ - 1]
             IN  Then(TextuiRefreshVlines(w2, actual_line_sum, top, actual_line_sum),
                      LAMBDA r : Res(w2, r.ret, r.drawn))

\* the last branch of textui_putchar_window: any other character
PutPrintable(w, actual_line_sum, character, frcolor, bkcolor) ==
    IF ~Check(w.vlines[w.vline_operating].index, w.chars_per_line)
    THEN Then(TextuiNewLine(w, actual_line_sum), LAMBDA n :
             IF n.ret # OK THEN n
             ELSE Then(TrueTextuiPutcharWindow(n.win, actual_line_sum,
                                               character, frcolor, bkcolor),
                       LAMBDA r : Res(r.win, r.ret, n.drawn \o r.drawn)))
    ELSE TrueTextuiPutcharWindow(w, actual_line_sum, character, frcolor, bkcolor)

\* faulty variant of SerialBytes: a newline goes out without its '\r'
SerialBytesNoCr(character) ==
    IF character \in {NUL, CR} THEN <<>> ELSE <<character>>

\* the bytes textui_putchar_window sends to the serial port for a character
SerialBytes(character) ==
    IF character \in {NUL, CR} THEN <<>>
    ELSE IF character = LF THEN <<LF, CR>>
    ELSE <<character>>

\* faulty variant of TextuiPutcharWindow: the newline branch calls
\* textui_new_line without testing is_enable_window
TextuiPutcharWindowNewlineUngated(w, actual_line_sum, character, frcolor, bkcolor, is_enable_window) ==
    IF character = NUL \/ character = CR THEN Res(w, OK, <<>>)
    ELSE IF character = LF THEN TextuiNewLine(w, actual_line_sum)
    ELSE IF ~is_enable_window THEN Res(w, OK, <<>>)
    ELSE IF character = TAB THEN PutTab(w, actual_line_sum, frcolor, bkcolor)
    ELSE IF character = BS THEN PutBackspace(w, actual_line_sum, bkcolor)
    ELSE PutPrintable(w, actual_line_sum, character, frcolor, bkcolor)

\* faulty variant of TextuiPutcharWindow: a carriage return is not dropped
\* but takes the write column back to 0
TextuiPutcharWindowCrReturns(w, actual_line_sum, character, frcolor, bkcolor, is_enable_window) ==
    IF character = NUL THEN Res(w, OK, <<>>)
    ELSE IF ~is_enable_window THEN Res(w, OK, <<>>)
    ELSE IF character = CR
         THEN Res([w EXCEPT !.vlines[w.vline_operating].index = 0], OK, <<>>)
    ELSE IF character = LF THEN TextuiNewLine(w, actual_line_sum)
    ELSE IF character = TAB THEN PutTab(w, actual_line_sum, frcolor, bkcolor)
    ELSE IF character = BS THEN PutBackspace(w, actual_line_sum, bkcolor)
    ELSE PutPrintable(w, actual_line_sum, character, frcolor, bkcolor)

\* textui_putchar_window
TextuiPutcharWindow(w, actual_line_sum, character, frcolor, bkcolor, is_enable_window) ==
    IF character = NUL \/ character = CR THEN Res(w, OK, <<>>)
    ELSE IF ~is_enable_window THEN Res(w, OK, <<>>)
    ELSE IF character = LF THEN TextuiNewLine(w, actual_line_sum)
    ELSE IF character = TAB THEN PutTab(w, actual_line_sum, frcolor, bkcolor)
    ELSE IF character = BS THEN PutBackspace(w, actual_line_sum, bkcolor)
    ELSE PutPrintable(w, actual_line_sum, character, frcolor, bkcolor)

\* the size of a glyph in pixels
TEXTUI_CHAR_WIDTH  == 8
TEXTUI_CHAR_HEIGHT == 16

---------------------------------------------------------------------------
(* FontColor: a u32 holding a 24-bit colour. The u32 values explored stay   *)
(* below 2^31; u8 operands widened to u32 and shifted by at most 16 stay    *)
(* below 2^24, so no shift overflows the 32 bits.                           *)

RECURSIVE BitAnd(_, _)
BitAnd(x, y) ==
    IF x = 0 \/ y = 0 THEN 0
    ELSE (x % 2) * (y % 2) + 2 * BitAnd(x \div 2, y \div 2)

RECURSIVE BitOr(_, _)
BitOr(x, y) ==
    IF x = 0 THEN y
    ELSE IF y = 0 THEN x
    ELSE (IF x % 2 = 1 \/ y % 2 = 1 THEN 1 ELSE 0) + 2 * BitOr(x \div 2, y \div 2)

Shl(x, k) == x * 2 ^ k

\* 0x00ffffff
ColorMask == 16777215

\* FontColor::new
FontColorNew(r, g, b) == BitAnd(BitOr(BitOr(Shl(r, 16), Shl(g, 8)), b), ColorMask)

\* faulty variant of FontColorFromU32: the value is stored unmasked
FontColorFromU32Unmasked(value) == value

\* From<u32> for FontColor
FontColorFromU32(value) == BitAnd(value, ColorMask)

\* From<FontColor> for u32: the field itself
FontColorIntoU32(value) == value

\* no FontColor made yet; out holds the u32 read from the FontColor, once read
NoColor == [made |-> None, args |-> <<>>, value |-> BLACK, out |-> <<>>]

---------------------------------------------------------------------------
(* Glyph rows: a Font is 16 rows of 8 pixels, each row a u8 mask. Both      *)
(* renderers decide every pixel of a row from the mask and the pixel's      *)
(* column; one row is modelled, the 16 rows are rendered alike.             *)

\* bit k of a value
Bit(x, k) == (x \div 2 ^ k) % 2 = 1

\* Font::is_frcolor computes 1 << (8 - width) in u8 (testbit is ANDed with a
\* u8): for width 0 the shift amount is the type's width, an overflow
ShlOverflows(width) == 8 - width >= 8

\* Font::is_frcolor where the shift wraps: the amount is taken modulo 8
IsFrcolor(w, width) == BitAnd(w, Shl(1, (8 - width) % 8) % 256) # 0

\* one glyph row of textui_refresh_character. A build with overflow checks
\* panics on the first pixel's shift; a build without them wraps it.
TextuiRefreshCharacterRow(w, frcolor, bkcolor, overflow_checks) ==
    IF overflow_checks /\ \E j \in 0 .. TEXTUI_CHAR_WIDTH - 1 : ShlOverflows(j)
    THEN [ret |-> PANIC, pixels |-> <<>>]
    ELSE [ret |-> OK,
          pixels |-> [j \in 1 .. TEXTUI_CHAR_WIDTH |->
                         IF IsFrcolor(w, j - 1) THEN frcolor ELSE bkcolor]]

\* the test bit of no_init_textui_render_chromatic at pixel column j: the u32
\* 1 << (TEXTUI_CHAR_WIDTH + 1) shifted right once per column up to and
\* including this one, then cast to u8
NoInitTestbit(j) == (Shl(1, TEXTUI_CHAR_WIDTH + 1) \div 2 ^ (j + 1)) % 256

\* one glyph row of no_init_textui_render_chromatic
NoInitTextuiRenderChromaticRow(w, frcolor, bkcolor) ==
    [ret |-> OK,
     pixels |-> [j \in 1 .. TEXTUI_CHAR_WIDTH |->
                    IF BitAnd(w, NoInitTestbit(j - 1)) # 0 THEN frcolor ELSE bkcolor]]

\* no glyph row rendered yet
NoRow == [renderer |-> None, mask |-> 0, frcolor |-> BLACK, bkcolor |-> BLACK,
          ret |-> OK, pixels |-> <<>>]

\* before initialization: no frame buffer
NoBufInfo == [width |-> 0, height |-> 0, buf |-> "DeviceBuffer"]

\* no change of frame buffer under way; arg is the buf_info passed, old and
\* new the buf_info values the call has read
NoChange == [pc |-> "idle", arg |-> NoBufInfo, old |-> NoBufInfo, new |-> NoBufInfo]

\* no character cell being rendered; binding is the buf_info the render draws
\* into, seen the buf_info values it has read, early whether it has read one
\* between a change's swap and the end of its copy
NoRender == [pc |-> "idle", row |-> 0, binding |-> NoBufInfo, seen |-> {},
             early |-> FALSE]

\* the frame-buffer side of the state at rest
FbIdle ==
    /\ px = NoRow
    /\ mwriter = "free"
    /\ chg = NoChange
    /\ rnd = NoRender
    /\ slock = "free"

\* the frame buffer a window of chars_per_line columns and actual_line visible
\* rows was built for
MetadataOfWindow ==
    [width  |-> win.chars_per_line * TEXTUI_CHAR_WIDTH,
     height |-> actual_line * TEXTUI_CHAR_HEIGHT,
     buf    |-> "DeviceBuffer"]

---------------------------------------------------------------------------
(* Loop devices (kernel/src/driver/base/block/loopdevice.rs): LoopManager  *)
(* hands out the ids of the loop devices from a bitmap and a table of      *)
(* names, both behind one spin lock; a LoopDevice keeps its read_only flag *)
(* behind the spin lock of its inner data.                                 *)

\* LoopManager::MAX_DEVICES
MAX_DEVICES == 8

LoopIds == 0 .. MAX_DEVICES - 1

\* the execution contexts that call into the loop subsystem
LoopContexts == {1, 2}

ENOMEM == "ENOMEM"
EROFS  == "EROFS"
EIO    == "EIO"

\* LoopManager::format_name: the DevName of loop device id
FormatName(id) == [name |-> <<"loop", id>>, id |-> id]

\* alloc_id's None, in the shape of a DevName
NoDevName == [name |-> <<>>, id |-> MAX_DEVICES]

\* a context's call on the loop subsystem: the function called, its position,
\* its argument (an id, or a block range), the read_only flag it read, whether
\* it called the backing file's write and the flag at that moment, whether the
\* id it got was still held, whether it started after loop_init's attempts,
\* and <<>> or <<what it returned>>
NoCall == [fn |-> "none", pc |-> "idle", arg |-> 0, seen |-> FALSE,
           wrote |-> FALSE, flag |-> FALSE, again |-> FALSE, late |-> FALSE,
           out |-> <<>>]

\* LoopManager::new, no call in progress, and a loop device as LoopDevice::new
\* makes it
LoopIdle ==
    /\ id_bmp = [i \in LoopIds |-> FALSE]
    /\ devname = [i \in LoopIds |-> <<>>]
    /\ mgr = 0
    /\ lc = [t \in LoopContexts |-> NoCall]
    /\ held = {}
    /\ attempts = 0
    /\ read_only = FALSE
    /\ dlock = 0
    /\ last_set = FALSE

---------------------------------------------------------------------------
(* Specification Spec: one window, fed one character at a time.             *)
(* Init draws the window's geometry: chars_per_line C, vline_sum N and the  *)
(* number of visible rows R <= N (textui_framwork_init builds N = R; the    *)
(* constructor and the state machine take any N and R).                     *)

Geometry(c, n, r) == [chars |-> c, lines |-> n, rows |-> r]

\* the windows of the worked scenarios: 8 columns, 4 lines, 2 rows (A, B);
\* 4 columns, on 2 and on 3 lines (C); 9 columns, where a tab from column 0
\* ends on the last column
ScenarioGeometries ==
    {Geometry(8, 4, 2), Geometry(4, 2, 2), Geometry(4, 3, 2), Geometry(9, 2, 2)}

Geometries ==
    {Geometry(c, n, r) : c \in 1 .. MaxChars, n \in 1 .. MaxLines, r \in 1 .. MaxLines}

ScenarioAB == <<"A", "B", "C", "D", "E", "F", "G", LF, LF>>
ScenarioC  == <<"A", "B", TAB>>
Scenarios  == {ScenarioAB, ScenarioC}

IsPrefix(s, t) == Len(s) <= Len(t) /\ SubSeq(t, 1, Len(s)) = s

\* the characters explored at every position; the scenarios' strings are
\* explored in full on top of them
BaseChars == {"A"} \cup Controls

MayWrite(character) ==
    \/ Len(written) < MaxLen /\ character \in BaseChars
    \/ \E s \in Scenarios : IsPrefix(Append(written, character), s)

\* a render that addresses a physical row outside the actual_line rows of
\* the frame buffer writes outside it
OutOfScreen(d) == \E i \in 1 .. Len(d) : d[i].row \notin 0 .. actual_line - 1

NoOp == [character |-> None, frcolor |-> BLACK, bkcolor |-> BLACK, enabled |-> FALSE]

\* the contexts that may call textui_init
InitContexts == {1, 2, 3}

NoFramework == [by |-> 0]

\* the state textui_framwork_init leaves when context 1 has run it alone
Initialized ==
    /\ framework = [by |-> 1]
    /\ is_init = TRUE
    /\ ipc = [t \in InitContexts |-> IF t = 1 THEN "done" ELSE "idle"]
    /\ created = {1}

InitStr ==
    /\ Initialized
    /\ fc = NoColor
    /\ FbIdle
    /\ LoopIdle
    /\ metadata = MetadataOfWindow
    /\ pc = [t \in {1, 2} |-> "idle"]
    /\ todo = [t \in {1, 2} |-> <<>>]
    /\ color = [t \in {1, 2} |-> <<WHITE, BLACK>>]
    /\ lock = 0
    /\ log = <<>>

InitWin(g) ==
    /\ win = TextuiWindowNew(g.lines, g.chars)
    /\ actual_line = g.rows
    /\ written = <<>>
    /\ prev = win
    /\ op = NoOp
    /\ ret = OK
    /\ drawn = <<>>
    /\ sent = <<>>
    /\ halted = FALSE

Init ==
    /\ \E g \in {x \in Geometries \cup ScenarioGeometries : x.rows <= x.lines} : InitWin(g)
    /\ enable = TRUE
    /\ InitStr

\* one call of textui_putchar_window on the window, with the value of
\* ENABLE_PUT_TO_WINDOW read for it
Feed(character, frcolor, bkcolor) ==
    /\ ~halted
    /\ \E r \in {TextuiPutcharWindow(win, actual_line, character, frcolor, bkcolor, enable)} :
        /\ win' = r.win
        /\ prev' = win
        /\ op' = [character |-> character, frcolor |-> frcolor,
                  bkcolor |-> bkcolor, enabled |-> enable]
        /\ ret' = r.ret
        /\ drawn' = r.drawn
        /\ sent' = SerialBytes(character)
        /\ written' = IF enable THEN Append(written, character) ELSE written
        /\ halted' \in (IF OutOfScreen(r.drawn) THEN BOOLEAN ELSE {FALSE})
        /\ UNCHANGED actual_line

\* a character of the explored sequences, fed to the window
Putchar(character, frcolor, bkcolor) ==
    /\ MayWrite(character)
    /\ Feed(character, frcolor, bkcolor)

PutcharPrintable ==
    /\ \E ch \in Printable, cp \in ColorPairs : Putchar(ch, cp[1], cp[2])
    /\ UNCHANGED strVars

PutcharNewline ==
    /\ \E cp \in ColorPairs : Putchar(LF, cp[1], cp[2])
    /\ UNCHANGED strVars

PutcharTab ==
    /\ \E cp \in ColorPairs : Putchar(TAB, cp[1], cp[2])
    /\ UNCHANGED strVars

PutcharBackspace ==
    /\ \E cp \in ColorPairs : Putchar(BS, cp[1], cp[2])
    /\ UNCHANGED strVars

PutcharNul ==
    /\ \E cp \in ColorPairs : Putchar(NUL, cp[1], cp[2])
    /\ UNCHANGED strVars

PutcharCr ==
    /\ \E cp \in ColorPairs : Putchar(CR, cp[1], cp[2])
    /\ UNCHANGED strVars

Next ==
    \/ PutcharPrintable
    \/ PutcharNewline
    \/ PutcharTab
    \/ PutcharBackspace
    \/ PutcharNul
    \/ PutcharCr

Spec == Init /\ [][Next]_vars

---------------------------------------------------------------------------
(* Specification SpecRefresh: the window of Spec, with refresh requests     *)
(* (textui_refresh_characters) of any line, start column and count issued   *)
(* between the characters.                                                  *)

RefreshGeometries == {Geometry(c, n, r) : c \in 1 .. 2, n \in 1 .. 2, r \in 1 .. 2}

InitRefresh ==
    /\ \E g \in {x \in RefreshGeometries : x.rows <= x.lines} : InitWin(g)
    /\ enable = TRUE
    /\ InitStr

\* the arguments of the refresh requests explored: the first and last valid
\* line and column and the ones just outside; no cell, one cell, a whole line
RefreshLineIds == {-1, 0, win.vline_sum - 1, win.vline_sum}
RefreshStarts  == {-1, 0, win.chars_per_line - 1, win.chars_per_line}
RefreshCounts  == {0, 1, win.chars_per_line}

\* one call of textui_refresh_characters on the window
RefreshCharacters ==
    /\ ~halted
    /\ \E vline_id \in RefreshLineIds, start \in RefreshStarts, count \in RefreshCounts :
        \E r \in {TextuiRefreshCharacters(win, actual_line, vline_id, start, count)} :
            /\ op' = [character |-> "refresh", frcolor |-> BLACK, bkcolor |-> BLACK,
                      enabled |-> FALSE,
                      vline_id |-> vline_id, start |-> start, count |-> count]
            /\ ret' = r.ret
            /\ drawn' = r.drawn
            /\ halted' \in (IF r.ret = PANIC THEN {TRUE}
                            ELSE IF OutOfScreen(r.drawn) THEN BOOLEAN ELSE {FALSE})
    /\ prev' = win
    /\ sent' = <<>>
    /\ UNCHANGED <<win, actual_line, written, strVars>>

NextRefresh ==
    \/ Next
    \/ RefreshCharacters

SpecRefresh == InitRefresh /\ [][NextRefresh]_vars

---------------------------------------------------------------------------
(* Specification SpecColor: FontColor values are made from three u8         *)
(* components or from a u32, and read back as a u32.                        *)

\* the u8 components and the u32 values explored: the ends of the range,
\* single bits, and values with bits set above bit 23
Bytes == {0, 1, 2, 127, 128, 255}
Words == {0, 1, 255, 256, 65535, 65536, 16777215, 16777216, 16777217,
          305419896, 1073741824, 2130706432, 2147483647}

InitColor ==
    /\ \E g \in {Geometry(1, 1, 1)} : InitWin(g)
    /\ enable = TRUE
    /\ InitStr

ColorNew ==
    /\ \E r, g, b \in Bytes :
        fc' = [made |-> "new", args |-> <<r, g, b>>,
               value |-> FontColorNew(r, g, b), out |-> <<>>]
    /\ UNCHANGED <<loopVars, winVars, pc, todo, color, lock, enable, log, initVars, fbVars>>

ColorFromU32 ==
    /\ \E v \in Words :
        fc' = [made |-> "from", args |-> <<v>>,
               value |-> FontColorFromU32(v), out |-> <<>>]
    /\ UNCHANGED <<loopVars, winVars, pc, todo, color, lock, enable, log, initVars, fbVars>>

ColorIntoU32 ==
    /\ fc.made # None
    /\ fc.out = <<>>
    /\ fc' = [fc EXCEPT !.out = <<FontColorIntoU32(fc.value)>>]
    /\ UNCHANGED <<loopVars, winVars, pc, todo, color, lock, enable, log, initVars, fbVars>>

NextColor ==
    \/ ColorNew
    \/ ColorFromU32
    \/ ColorIntoU32

SpecColor == InitColor /\ [][NextColor]_vars

---------------------------------------------------------------------------
(* Specification SpecGlyph: glyph rows are rendered by the window renderer  *)
(* and by the renderer used before initialization.                          *)

\* the row masks explored: every u8
Masks == 0 .. 255

InitGlyph ==
    /\ \E g \in {Geometry(1, 1, 1)} : InitWin(g)
    /\ enable = TRUE
    /\ InitStr

RenderRowWindow ==
    /\ \E w \in Masks, cp \in ColorPairs, overflow_checks \in BOOLEAN :
        \E r \in {TextuiRefreshCharacterRow(w, cp[1], cp[2], overflow_checks)} :
            px' = [renderer |-> "window", mask |-> w, frcolor |-> cp[1],
                   bkcolor |-> cp[2], ret |-> r.ret, pixels |-> r.pixels]
    /\ UNCHANGED <<loopVars, winVars, pc, todo, color, lock, enable, log, initVars, fc,
                   metadata, mwriter, chg, rnd, slock>>

RenderRowNoInit ==
    /\ \E w \in Masks, cp \in ColorPairs :
        \E r \in {NoInitTextuiRenderChromaticRow(w, cp[1], cp[2])} :
            px' = [renderer |-> "no_init", mask |-> w, frcolor |-> cp[1],
                   bkcolor |-> cp[2], ret |-> r.ret, pixels |-> r.pixels]
    /\ UNCHANGED <<loopVars, winVars, pc, todo, color, lock, enable, log, initVars, fc,
                   metadata, mwriter, chg, rnd, slock>>

NextGlyph ==
    \/ RenderRowWindow
    \/ RenderRowNoInit

SpecGlyph == InitGlyph /\ [][NextGlyph]_vars

---------------------------------------------------------------------------
(* Specification SpecInit: execution contexts call textui_init, which runs  *)
(* textui_framwork_init. __TEXTUI_FRAMEWORK and TEXTUI_IS_INIT are static   *)
(* mut, read and written with no synchronization, so the steps of           *)
(* concurrent calls interleave. A call stands at "idle" before it starts,   *)
(* at "build" once it has found no framework, at "register" once it has     *)
(* stored its console, at "flag" once it has registered it, at "done" when  *)
(* it has set TEXTUI_IS_INIT, and at "panicked" if it found a framework.    *)

\* the frame buffers explored
BufInfos == {[width |-> 8,  height |-> 16, buf |-> "DeviceBuffer"],
             [width |-> 16, height |-> 32, buf |-> "DoubleBuffer"],
             [width |-> 24, height |-> 32, buf |-> "DeviceBuffer"]}

\* before initialization there is no window; win holds the empty window of
\* TextuiWindow::default()
DefaultWindow == TextuiWindowNew(0, 0)

InitBoot ==
    /\ win = DefaultWindow
    /\ actual_line = 0
    /\ written = <<>>
    /\ prev = win
    /\ op = NoOp
    /\ ret = OK
    /\ drawn = <<>>
    /\ sent = <<>>
    /\ halted = FALSE
    /\ pc = [t \in {1, 2} |-> "idle"]
    /\ todo = [t \in {1, 2} |-> <<>>]
    /\ color = [t \in {1, 2} |-> <<WHITE, BLACK>>]
    /\ lock = 0
    /\ log = <<>>
    /\ enable = FALSE
    /\ framework = NoFramework
    /\ is_init = FALSE
    /\ ipc = [t \in InitContexts |-> "idle"]
    /\ created = {}
    /\ fc = NoColor
    /\ FbIdle
    /\ LoopIdle
    /\ metadata = NoBufInfo

\* the test of __TEXTUI_FRAMEWORK.is_none(); the else branch panics
InitCheck(t) ==
    /\ ~halted
    /\ ipc[t] = "idle"
    /\ IF framework = NoFramework
       THEN ipc' = [ipc EXCEPT ![t] = "build"] /\ halted' = FALSE
       ELSE ipc' = [ipc EXCEPT ![t] = "panicked"] /\ halted' = TRUE
    /\ UNCHANGED <<loopVars, win, actual_line, written, prev, op, ret, drawn, sent,
                   fbVars, fc, pc, todo, color, lock, enable, log, framework, is_init, created>>

\* the first window is built from the frame buffer's size and the console
\* holding it is stored in __TEXTUI_FRAMEWORK
InitStore(t) ==
    /\ ~halted
    /\ ipc[t] = "build"
    /\ \E b \in BufInfos :
        /\ win' = TextuiWindowNew(b.height \div TEXTUI_CHAR_HEIGHT,
                                  b.width \div TEXTUI_CHAR_WIDTH)
        /\ actual_line' = b.height \div TEXTUI_CHAR_HEIGHT
        /\ metadata' = b
    /\ prev' = win
    /\ framework' = [by |-> t]
    /\ created' = created \cup {t}
    /\ ipc' = [ipc EXCEPT ![t] = "register"]
    /\ UNCHANGED <<loopVars, written, op, ret, drawn, sent, halted,
                   rndVars, fc, pc, todo, color, lock, enable, log, is_init>>

\* scm_register and the serial port's message
InitRegister(t) ==
    /\ ~halted
    /\ ipc[t] = "register"
    /\ sent' = <<"text ui initialized">>
    /\ ipc' = [ipc EXCEPT ![t] = "flag"]
    /\ UNCHANGED <<loopVars, win, actual_line, written, prev, op, ret, drawn, halted,
                   fbVars, fc, pc, todo, color, lock, enable, log, framework, is_init, created>>

\* TEXTUI_IS_INIT = true
InitFinish(t) ==
    /\ ~halted
    /\ ipc[t] = "flag"
    /\ is_init' = TRUE
    /\ ipc' = [ipc EXCEPT ![t] = "done"]
    /\ UNCHANGED <<loopVars, win, actual_line, written, prev, op, ret, drawn, sent, halted,
                   fbVars, fc, pc, todo, color, lock, enable, log, framework, created>>

NextInit ==
    \/ \E t \in InitContexts : InitCheck(t)
    \/ \E t \in InitContexts : InitStore(t)
    \/ \E t \in InitContexts : InitRegister(t)
    \/ \E t \in InitContexts : InitFinish(t)

SpecInit == InitBoot /\ [][NextInit]_vars

---------------------------------------------------------------------------
(* Specification SpecChange: on an initialized console, one context calls   *)
(* TextUiFramework::change while another renders character cells and the    *)
(* display refresh takes and releases the double buffer's lock. Every       *)
(* statement that takes metadata's RwLock drops its guard at its end, so    *)
(* each is one step; the write is two steps, the lock held in between.      *)

chgFrame == <<winVars, pc, todo, color, lock, enable, log, initVars, fc, px, loopVars>>

InitChange ==
    /\ \E b \in BufInfos :
        /\ InitWin(Geometry(b.width \div TEXTUI_CHAR_WIDTH,
                            b.height \div TEXTUI_CHAR_HEIGHT,
                            b.height \div TEXTUI_CHAR_HEIGHT))
        /\ metadata = b
    /\ enable = TRUE
    /\ Initialized
    /\ fc = NoColor
    /\ FbIdle
    /\ LoopIdle
    /\ pc = [t \in {1, 2} |-> "idle"]
    /\ todo = [t \in {1, 2} |-> <<>>]
    /\ color = [t \in {1, 2} |-> <<WHITE, BLACK>>]
    /\ lock = 0
    /\ log = <<>>

\* RwLock::read and RwLock::write return once no writer holds the lock (a
\* reader holds it only inside its own step)
RwLockRead(writer) == writer = "free"
RwLockWrite(writer) == writer = "free"

\* SpinLock::lock on the double buffer returns once no one holds it
SurfaceLock(holder) == holder = "free"

\* change: old_buf = metadata.read().buf_info()
ChangeBegin ==
    /\ chg.pc \in {"idle", "done"}
    /\ RwLockRead(mwriter)
    /\ \E buf_info \in BufInfos :
        chg' = [pc |-> "write", arg |-> buf_info, old |-> metadata, new |-> NoBufInfo]
    /\ UNCHANGED <<chgFrame, metadata, mwriter, rnd, slock>>

\* change: metadata.write() ...
ChangeWrite ==
    /\ chg.pc = "write"
    /\ RwLockWrite(mwriter)
    /\ mwriter' = "change"
    /\ chg' = [chg EXCEPT !.pc = "set"]
    /\ UNCHANGED <<chgFrame, metadata, rnd, slock>>

\* change: ... .set_buf_info(buf_info), and the write guard is dropped.
\* actual_line is not touched.
ChangeSet ==
    /\ chg.pc = "set"
    /\ metadata' = chg.arg
    /\ mwriter' = "free"
    /\ chg' = [chg EXCEPT !.pc = "reread"]
    /\ UNCHANGED <<chgFrame, rnd, slock>>

\* change: new_buf = metadata.read().buf_info()
ChangeReread ==
    /\ chg.pc = "reread"
    /\ RwLockRead(mwriter)
    /\ chg' = [chg EXCEPT !.pc = "copy", !.new = metadata]
    /\ UNCHANGED <<chgFrame, metadata, mwriter, rnd, slock>>

\* change: new_buf.copy_from_nonoverlapping(&old_buf), and the return
ChangeCopy ==
    /\ chg.pc = "copy"
    /\ chg' = [chg EXCEPT !.pc = "done"]
    /\ UNCHANGED <<chgFrame, metadata, mwriter, rnd, slock>>

\* a change has swapped the metadata and has not yet finished its copy
CopyPending == chg.pc \in {"reread", "copy"}

\* what a render knows once it has read metadata in the current state
Reading(r) == [r EXCEPT !.seen = @ \cup {metadata}, !.early = @ \/ CopyPending]

\* textui_refresh_character: get_start_index_by_lineid_lineindex reads the
\* width from metadata
RenderStart ==
    /\ rnd.pc = "idle"
    /\ RwLockRead(mwriter)
    /\ rnd' = [Reading(NoRender) EXCEPT !.pc = "binding"]
    /\ UNCHANGED <<chgFrame, metadata, mwriter, chg, slock>>

\* textui_refresh_character: _binding = metadata.read().buf_info()
RenderBinding ==
    /\ rnd.pc = "binding"
    /\ RwLockRead(mwriter)
    /\ rnd' = [Reading(rnd) EXCEPT !.pc = "buf", !.binding = metadata]
    /\ UNCHANGED <<chgFrame, metadata, mwriter, chg, slock>>

\* textui_refresh_character: TextuiBuf::new locks a double buffer and keeps
\* the guard; a device buffer has no lock
RenderBuf ==
    /\ rnd.pc = "buf"
    /\ IF rnd.binding.buf = "DoubleBuffer"
       THEN SurfaceLock(slock) /\ slock' = "render"
       ELSE slock' = slock
    /\ rnd' = [rnd EXCEPT !.pc = "rows"]
    /\ UNCHANGED <<chgFrame, metadata, mwriter, chg>>

\* textui_refresh_character: one glyph row, and get_index_of_next_line, which
\* reads the width from metadata
RenderRow ==
    /\ rnd.pc = "rows"
    /\ rnd.row < TEXTUI_CHAR_HEIGHT
    /\ RwLockRead(mwriter)
    /\ rnd' = [Reading(rnd) EXCEPT !.row = @ + 1]
    /\ UNCHANGED <<chgFrame, metadata, mwriter, chg, slock>>

\* faulty variant of GuardDropped: the guard outlives the render of the cell
GuardKept(holder) == holder

\* the double buffer's lock once the render's TextuiBuf is dropped: the guard
\* it held, if any, is released
GuardDropped(holder) == IF holder = "render" THEN "free" ELSE holder

\* textui_refresh_character returns: buf is dropped, and its guard with it
RenderReturn ==
    /\ rnd.pc = "rows"
    /\ rnd.row = TEXTUI_CHAR_HEIGHT
    /\ rnd' = [rnd EXCEPT !.pc = "idle"]
    /\ slock' = GuardDropped(slock)
    /\ UNCHANGED <<chgFrame, metadata, mwriter, chg>>

\* the display refresh takes the double buffer's lock to flush it
FlushLock ==
    /\ SurfaceLock(slock)
    /\ slock' = "refresh"
    /\ UNCHANGED <<chgFrame, metadata, mwriter, chg, rnd>>

\* ... and releases it
FlushUnlock ==
    /\ slock = "refresh"
    /\ slock' = "free"
    /\ UNCHANGED <<chgFrame, metadata, mwriter, chg, rnd>>

NextChange ==
    \/ ChangeBegin
    \/ ChangeWrite
    \/ ChangeSet
    \/ ChangeReread
    \/ ChangeCopy
    \/ RenderStart
    \/ RenderBinding
    \/ RenderBuf
    \/ RenderRow
    \/ RenderReturn
    \/ FlushLock
    \/ FlushUnlock

SpecChange == InitChange /\ [][NextChange]_vars

---------------------------------------------------------------------------
(* Specification SpecPutstr: two execution contexts call textui_putstr on   *)
(* the initialized framework, each with one string, while                   *)
(* ENABLE_PUT_TO_WINDOW may be switched at any time. The window is the one  *)
(* textui_framwork_init builds: as many virtual lines as visible rows.      *)
(* A call stands at "call" before it starts, at "lock" while it spins for   *)
(* the window's lock, at "loop" at the head of its for loop, and at "done"  *)
(* once it has returned.                                                    *)

Contexts == {1, 2}

PutstrGeometries == {Geometry(1, 2, 2), Geometry(2, 2, 2)}

\* the strings over an alphabet, up to MaxStr characters
Strings(alphabet) == UNION {[1 .. n -> alphabet] : n \in 0 .. MaxStr}

\* the characters of each context's string
PutstrChars(t) == IF t = 1 THEN {"A", BS, CR} ELSE {"B", TAB, LF}

\* the colours of each context's call
PutstrColor(t) == IF t = 1 THEN <<WHITE, BLACK>> ELSE <<BLACK, WHITE>>

InitPutstr ==
    /\ \E g \in PutstrGeometries : InitWin(g)
    /\ Initialized
    /\ fc = NoColor
    /\ FbIdle
    /\ LoopIdle
    /\ metadata = MetadataOfWindow
    /\ enable = TRUE
    /\ pc = [t \in Contexts |-> "call"]
    /\ todo \in [Contexts -> Strings(PutstrChars(1) \cup PutstrChars(2))]
    /\ \A t \in Contexts : todo[t] \in Strings(PutstrChars(t))
    /\ color = [t \in Contexts |-> PutstrColor(t)]
    /\ lock = 0
    /\ log = <<>>

\* SpinLock::lock_irqsave returns once no one holds the lock
LockIrqsave(holder) == holder = 0

\* textui_putstr up to the lock: TEXTUI_IS_INIT is set, so the window is
\* Some(current_window)
PutstrBegin(t) ==
    /\ pc[t] = "call"
    /\ pc' = [pc EXCEPT ![t] = "lock"]
    /\ UNCHANGED <<loopVars, fbVars, fc, initVars, winVars, todo, color, lock, enable, log>>

\* textui_putstr takes the window's lock, spinning while it is held
PutstrLock(t) ==
    /\ pc[t] = "lock"
    /\ LockIrqsave(lock)
    /\ lock' = t
    /\ pc' = [pc EXCEPT ![t] = "loop"]
    /\ UNCHANGED <<loopVars, fbVars, fc, initVars, winVars, todo, color, enable, log>>

\* faulty variant of AfterChar: a guard scoped to the loop body, dropped
\* after every character and taken again for the next
AfterCharRelock(t) == [pc |-> "lock", lock |-> 0]

\* where textui_putstr stands after a character that returned Ok: at the head
\* of the loop again, its guard alive
AfterChar(t) == [pc |-> "loop", lock |-> t]

\* where textui_putstr stands once it has returned, by ? on a character's error
\* or at the end of the string: the guard is dropped
Returned(t) == [pc |-> "done", lock |-> 0]

\* faulty variant of AfterError: the error is dropped and the loop goes on
AfterErrorGoesOn(t) == AfterChar(t)

\* where textui_putstr stands after a character that returned an error: the ?
\* operator returns it to the caller at once
AfterError(t) == Returned(t)

\* one turn of textui_putstr's loop: the next character goes to
\* textui_putchar_window with the flag read for it
PutstrChar(t) ==
    /\ pc[t] = "loop"
    /\ todo[t] # <<>>
    /\ Feed(Head(todo[t]), color[t][1], color[t][2])
    /\ log' = Append(log, [context |-> t, character |-> Head(todo[t]),
                           frcolor |-> color[t][1], bkcolor |-> color[t][2],
                           enabled |-> enable, ret |-> ret', route |-> "window"])
    /\ todo' = [todo EXCEPT ![t] = Tail(@)]
    /\ \E after \in {IF ret' # OK THEN AfterError(t) ELSE AfterChar(t)} :
        /\ pc' = [pc EXCEPT ![t] = after.pc]
        /\ lock' = after.lock
    /\ UNCHANGED <<loopVars, fbVars, fc, initVars, color, enable>>

\* the string is exhausted: textui_putstr returns Ok
PutstrReturn(t) ==
    /\ pc[t] = "loop"
    /\ todo[t] = <<>>
    /\ pc' = [pc EXCEPT ![t] = Returned(t).pc]
    /\ lock' = Returned(t).lock
    /\ UNCHANGED <<loopVars, fbVars, fc, initVars, winVars, todo, color, enable, log>>

\* textui_enable_put_to_window
TextuiEnablePutToWindow ==
    /\ ~enable
    /\ enable' = TRUE
    /\ UNCHANGED <<loopVars, fbVars, fc, initVars, winVars, pc, todo, color, lock, log>>

\* textui_disable_put_to_window
TextuiDisablePutToWindow ==
    /\ enable
    /\ enable' = FALSE
    /\ UNCHANGED <<loopVars, fbVars, fc, initVars, winVars, pc, todo, color, lock, log>>

NextPutstr ==
    \/ \E t \in Contexts : PutstrBegin(t)
    \/ \E t \in Contexts : PutstrLock(t)
    \/ \E t \in Contexts : PutstrChar(t)
    \/ \E t \in Contexts : PutstrReturn(t)
    \/ TextuiEnablePutToWindow
    \/ TextuiDisablePutToWindow

SpecPutstr == InitPutstr /\ [][NextPutstr]_vars

---------------------------------------------------------------------------
(* Specification SpecEarly: textui_putstr is called while the console is    *)
(* being initialized. A call that finds TEXTUI_IS_INIT false takes no       *)
(* window and no guard and stands at "early" in its loop; TEXTUI_IS_INIT is *)
(* read again for every character.                                          *)

\* the characters of the strings written during initialization
EarlyChars == {"A"}

\* the strings of the two calls, MaxStr characters between them
EarlyStrings ==
    {f \in [Contexts -> Strings(EarlyChars)] :
         \A t, u \in Contexts : t # u => Len(f[t]) + Len(f[u]) <= MaxStr}

InitEarly ==
    /\ win = DefaultWindow
    /\ actual_line = 0
    /\ written = <<>>
    /\ prev = win
    /\ op = NoOp
    /\ ret = OK
    /\ drawn = <<>>
    /\ sent = <<>>
    /\ halted = FALSE
    /\ pc = [t \in Contexts |-> "call"]
    /\ todo \in EarlyStrings
    /\ color = [t \in Contexts |-> PutstrColor(t)]
    /\ lock = 0
    /\ log = <<>>
    /\ enable = FALSE
    /\ framework = NoFramework
    /\ is_init = FALSE
    /\ ipc = [t \in InitContexts |-> "idle"]
    /\ created = {}
    /\ fc = NoColor
    /\ FbIdle
    /\ LoopIdle
    /\ metadata = NoBufInfo

\* textui_putstr up to the lock: the window is Some(current_window) if
\* TEXTUI_IS_INIT is set and None otherwise, and the guard is the window's
\* lock or None with it
PutstrStart(t) ==
    /\ pc[t] = "call"
    /\ pc' = [pc EXCEPT ![t] = IF is_init THEN "lock" ELSE "early"]
    /\ UNCHANGED <<loopVars, fbVars, fc, initVars, winVars, todo, color, lock, enable, log>>

\* the route of a character in a call that holds no guard, from the value of
\* TEXTUI_IS_INIT read for this character: guard.as_mut().unwrap() on None
\* panics, the else branch calls no_init_textui_putchar_window
RouteOf(init_now) == IF init_now THEN PANIC ELSE "no_init"

\* one turn of the loop of a call that holds no guard
EarlyChar(t) ==
    /\ ~halted
    /\ pc[t] = "early"
    /\ todo[t] # <<>>
    /\ IF RouteOf(is_init) = PANIC
       THEN /\ pc' = [pc EXCEPT ![t] = "panicked"]
            /\ halted' = TRUE
            /\ UNCHANGED <<todo, log>>
       ELSE /\ log' = Append(log, [context |-> t, character |-> Head(todo[t]),
                                   frcolor |-> color[t][1], bkcolor |-> color[t][2],
                                   enabled |-> enable, ret |-> OK,
                                   route |-> RouteOf(is_init)])
            /\ todo' = [todo EXCEPT ![t] = Tail(@)]
            /\ UNCHANGED <<pc, halted>>
    /\ UNCHANGED <<loopVars, win, actual_line, written, prev, op, ret, drawn, sent,
                   fbVars, fc, initVars, color, lock, enable>>

\* the string of a call that holds no guard is exhausted
EarlyReturn(t) ==
    /\ pc[t] = "early"
    /\ todo[t] = <<>>
    /\ pc' = [pc EXCEPT ![t] = "done"]
    /\ UNCHANGED <<loopVars, fbVars, fc, initVars, winVars, todo, color, lock, enable, log>>

NextEarly ==
    \/ \E t \in InitContexts : InitCheck(t)
    \/ \E t \in InitContexts : InitStore(t)
    \/ \E t \in InitContexts : InitRegister(t)
    \/ \E t \in InitContexts : InitFinish(t)
    \/ \E t \in Contexts : PutstrStart(t)
    \/ \E t \in Contexts : PutstrLock(t)
    \/ \E t \in Contexts : PutstrChar(t)
    \/ \E t \in Contexts : PutstrReturn(t)
    \/ \E t \in Contexts : EarlyChar(t)
    \/ \E t \in Contexts : EarlyReturn(t)

SpecEarly == InitEarly /\ [][NextEarly]_vars

\* textui_putstr's loop run on its own: the window after the characters
\* e[k], e[k+1], ... are fed to w one after the other, up to the first error
RECURSIVE RunEntries(_, _, _)
RunEntries(w, e, k) ==
    IF k > Len(e) THEN w
    ELSE Then(TextuiPutcharWindow(w, actual_line, e[k].character, e[k].frcolor,
                                  e[k].bkcolor, e[k].enabled),
              LAMBDA r : IF r.ret # OK THEN r.win ELSE RunEntries(r.win, e, k + 1))

---------------------------------------------------------------------------
(* Specification SpecLoop: execution contexts call LoopManager::alloc_id    *)
(* and LoopManager::free_id. alloc_id holds the manager's lock from its     *)
(* first statement to its return; free_id takes the lock twice, once in     *)
(* each of its two statements, and each guard is dropped at the end of its  *)
(* statement. A call stands at "locked" once alloc_id holds the lock, at    *)
(* "bit" before free_id's first statement, at "name" before its second, and *)
(* at "done" when it has returned.                                          *)

\* the variables of the text console, which the loop subsystem leaves alone
uiVars == <<winVars, pc, todo, color, lock, enable, log, initVars, fc, fbVars>>

InitLoop ==
    /\ \E g \in {Geometry(1, 1, 1)} : InitWin(g)
    /\ enable = TRUE
    /\ InitStr

\* no call of context t is in progress
AtRest(t) == lc[t].pc \in {"idle", "done"}

\* faulty variant of FirstFalseIndex: the highest free index
FirstFalseIndexLast(bmp) ==
    LET free == {i \in DOMAIN bmp : ~bmp[i]}
    IN  IF free = {} THEN <<>>
        ELSE <<CHOOSE i \in free : \A j \in free : j <= i>>

\* StaticBitmap::first_false_index: <<>> for None, <<i>> for the lowest index
\* whose bit is clear
FirstFalseIndex(bmp) ==
    LET free == {i \in DOMAIN bmp : ~bmp[i]}
    IN  IF free = {} THEN <<>>
        ELSE <<CHOOSE i \in free : \A j \in free : i <= j>>

\* SpinLock::lock on LoopManager.inner or LoopDevice.inner: taken when free
SpinLockFree(holder) == holder = 0

\* alloc_id takes the manager's lock
AllocIdLock(t) ==
    /\ AtRest(t)
    /\ SpinLockFree(mgr)
    /\ mgr' = t
    /\ lc' = [lc EXCEPT ![t] = [NoCall EXCEPT !.fn = "alloc_id", !.pc = "locked"]]
    /\ UNCHANGED <<uiVars, id_bmp, devname, held, attempts, devVars>>

\* alloc_id under the lock: the first free index, its bit, its name, the return
AllocIdBody(t) ==
    /\ lc[t].fn = "alloc_id"
    /\ lc[t].pc = "locked"
    /\ LET idx == FirstFalseIndex(id_bmp)
       IN  IF idx = <<>>
           THEN /\ lc' = [lc EXCEPT ![t].pc = "done", ![t].out = <<NoDevName>>]
                /\ UNCHANGED <<id_bmp, devname, held>>
           ELSE /\ id_bmp' = [id_bmp EXCEPT ![idx[1]] = TRUE]
                /\ devname' = [devname EXCEPT ![idx[1]] = <<FormatName(idx[1])>>]
                /\ held' = held \cup {idx[1]}
                /\ lc' = [lc EXCEPT ![t].pc = "done",
                                    ![t].arg = idx[1],
                                    ![t].again = idx[1] \in held,
                                    ![t].out = <<FormatName(idx[1])>>]
    /\ mgr' = 0
    /\ UNCHANGED <<uiVars, attempts, devVars>>

\* the ids free_id is called with: the two lowest, and one out of range
FreeIdArgs == {0, 1, MAX_DEVICES}

\* free_id is called: an id out of range returns at once
FreeIdCall(t, id) ==
    /\ AtRest(t)
    /\ lc' = [lc EXCEPT ![t] = [NoCall EXCEPT !.fn = "free_id", !.arg = id,
                                              !.pc = IF id >= MAX_DEVICES
                                                     THEN "done" ELSE "bit"]]
    /\ UNCHANGED <<uiVars, mgrVars, attempts, devVars>>

\* free_id's first statement: lock, clear the bit, unlock
FreeIdBit(t) ==
    /\ lc[t].fn = "free_id"
    /\ lc[t].pc = "bit"
    /\ SpinLockFree(mgr)
    /\ id_bmp' = [id_bmp EXCEPT ![lc[t].arg] = FALSE]
    /\ held' = held \ {lc[t].arg}
    /\ lc' = [lc EXCEPT ![t].pc = "name"]
    /\ UNCHANGED <<uiVars, devname, mgr, attempts, devVars>>

\* free_id's second statement: lock, clear the name, unlock, return
FreeIdName(t) ==
    /\ lc[t].fn = "free_id"
    /\ lc[t].pc = "name"
    /\ SpinLockFree(mgr)
    /\ devname' = [devname EXCEPT ![lc[t].arg] = <<>>]
    /\ lc' = [lc EXCEPT ![t].pc = "done"]
    /\ UNCHANGED <<uiVars, id_bmp, mgr, held, attempts, devVars>>

NextLoop ==
    \/ \E t \in LoopContexts : AllocIdLock(t)
    \/ \E t \in LoopContexts : AllocIdBody(t)
    \/ \E t \in LoopContexts, id \in FreeIdArgs : FreeIdCall(t, id)
    \/ \E t \in LoopContexts : FreeIdBit(t)
    \/ \E t \in LoopContexts : FreeIdName(t)

SpecLoop == InitLoop /\ [][NextLoop]_vars

---------------------------------------------------------------------------
(* Specification SpecLoopInit: context 1 runs loop_init, which installs the *)
(* LoopManager and makes MAX_DEVICES creation attempts; context 2 calls     *)
(* create_loop_device at any time. A creation takes its id first            *)
(* (LoopDevice::new calls alloc_id before anything else) and can fail at    *)
(* any later step. loop_init stands at "attempt" between two attempts; a    *)
(* creation stands at "locked" while alloc_id holds the manager's lock and  *)
(* at "rest" once it has its id.                                            *)

\* how a creation that has its id ends: the step that fails, or "created".
\* The inode loop_init passes always has metadata.
CreateOutcomes(t) ==
    IF t = 1 THEN {"add_device", "register", "devfs_register", "created"}
    ELSE {"metadata", "add_device", "register", "devfs_register", "created"}

\* what create_loop_device returns: ENOMEM when LoopDevice::new returned None,
\* the failing callee's error, or Ok
CreateResult(o) ==
    IF o \in {"None", "metadata"} THEN ENOMEM
    ELSE IF o = "created" THEN OK
    ELSE o

\* faulty variant of IdBmpAfterFailure: a failed creation gives its id back
IdBmpAfterFailureFreed(bmp, idx) == [bmp EXCEPT ![idx] = FALSE]

\* the bitmap after a creation that held id idx has failed: no path of
\* LoopDevice::new or create_loop_device calls free_id
IdBmpAfterFailure(bmp, idx) == bmp

\* loop_init up to its loop: the manager is installed, then the bus and the
\* driver are registered, and either registration can fail
LoopInitStart ==
    /\ lc[1].pc = "idle"
    /\ \E o \in {"bus", "driver", "registered"} :
           lc' = [lc EXCEPT ![1] = [NoCall EXCEPT
                      !.fn = "loop_init",
                      !.pc = IF o = "registered" THEN "attempt" ELSE "done",
                      !.out = IF o = "registered" THEN <<>> ELSE <<o>>]]
    /\ UNCHANGED <<uiVars, mgrVars, attempts, devVars>>

\* the position of context t after a creation has returned: loop_init goes on
\* to its next attempt or returns, another caller has returned
AfterCreate(t, made) ==
    IF t = 1 /\ made < MAX_DEVICES THEN "attempt" ELSE "done"

\* a creation is started and alloc_id takes the manager's lock; context 2
\* panics in loop_manager() if loop_init has not installed the manager
CreateLock(t) ==
    /\ IF t = 1 THEN lc[t].pc = "attempt" ELSE AtRest(t)
    /\ IF lc[1].fn = "none"
       THEN /\ lc' = [lc EXCEPT ![t] = [NoCall EXCEPT !.fn = "create_loop_device",
                                                       !.pc = "panicked"]]
            /\ UNCHANGED mgr
       ELSE /\ SpinLockFree(mgr)
            /\ mgr' = t
            /\ lc' = [lc EXCEPT ![t] =
                         [NoCall EXCEPT !.fn = IF t = 1 THEN "loop_init"
                                               ELSE "create_loop_device",
                                        !.pc = "locked",
                                        !.late = attempts = MAX_DEVICES]]
    /\ UNCHANGED <<uiVars, id_bmp, devname, held, attempts, devVars>>

\* alloc_id under the lock, inside LoopDevice::new: None ends the creation
\* with ENOMEM
CreateAlloc(t) ==
    /\ lc[t].fn \in {"loop_init", "create_loop_device"}
    /\ lc[t].pc = "locked"
    /\ LET idx == FirstFalseIndex(id_bmp)
       IN  IF idx = <<>>
           THEN /\ lc' = [lc EXCEPT
                            ![t].pc = AfterCreate(t, attempts + 1),
                            ![t].out = <<CreateResult("None")>>]
                /\ attempts' = IF t = 1 THEN attempts + 1 ELSE attempts
                /\ UNCHANGED <<id_bmp, devname, held>>
           ELSE /\ id_bmp' = [id_bmp EXCEPT ![idx[1]] = TRUE]
                /\ devname' = [devname EXCEPT ![idx[1]] = <<FormatName(idx[1])>>]
                /\ held' = held \cup {idx[1]}
                /\ lc' = [lc EXCEPT ![t].pc = "rest", ![t].arg = idx[1]]
                /\ UNCHANGED attempts
    /\ mgr' = 0
    /\ UNCHANGED <<uiVars, devVars>>

\* the rest of a creation that has its id: the device is built and registered,
\* or a step fails and the creation returns with the id still allocated
CreateRest(t) ==
    /\ lc[t].fn \in {"loop_init", "create_loop_device"}
    /\ lc[t].pc = "rest"
    /\ \E o \in CreateOutcomes(t) :
        /\ lc' = [lc EXCEPT ![t].pc = AfterCreate(t, attempts + 1),
                            ![t].out = <<CreateResult(o)>>]
        /\ id_bmp' = IF o = "created" THEN id_bmp
                     ELSE IdBmpAfterFailure(id_bmp, lc[t].arg)
    /\ attempts' = IF t = 1 THEN attempts + 1 ELSE attempts
    /\ UNCHANGED <<uiVars, devname, mgr, held, devVars>>

NextLoopInit ==
    \/ LoopInitStart
    \/ \E t \in LoopContexts : CreateLock(t)
    \/ \E t \in LoopContexts : CreateAlloc(t)
    \/ \E t \in LoopContexts : CreateRest(t)

SpecLoopInit == InitLoop /\ [][NextLoopInit]_vars

---------------------------------------------------------------------------
(* Specification SpecLoopDev: execution contexts call set_read_only and     *)
(* write_at_sync on one loop device. set_read_only takes the device's lock  *)
(* for its one statement; write_at_sync takes it first and holds it to its  *)
(* return. A write stands at "locked" once it holds the lock and at "write" *)
(* once it has found the device writable.                                   *)

\* the block ranges written: <<lba_id_start, count>>
BlockRanges == {<<0, 0>>, <<0, 1>>, <<1, 2>>}

\* faulty variant of HolderAfterCheck: the lock is dropped after the check
HolderAfterCheckNone(t) == 0

\* the holder of the device's lock between the check of read_only and the
\* backing file's write: the guard lives to the end of write_at_sync
HolderAfterCheck(t) == t

\* set_read_only: lock, store the flag, unlock
SetReadOnly(t, b) ==
    /\ AtRest(t)
    /\ SpinLockFree(dlock)
    /\ read_only' = b
    /\ last_set' = b
    /\ lc' = [lc EXCEPT ![t] = [NoCall EXCEPT !.fn = "set_read_only",
                                              !.arg = <<b>>, !.pc = "done"]]
    /\ UNCHANGED <<uiVars, mgrVars, attempts, dlock>>

\* write_at_sync takes the device's lock
WriteAtSyncLock(t, range) ==
    /\ AtRest(t)
    /\ SpinLockFree(dlock)
    /\ dlock' = t
    /\ lc' = [lc EXCEPT ![t] = [NoCall EXCEPT !.fn = "write_at_sync",
                                              !.arg = range, !.pc = "locked"]]
    /\ UNCHANGED <<uiVars, mgrVars, attempts, read_only, last_set>>

\* the check of read_only: EROFS and return, or on to the write
WriteAtSyncCheck(t) ==
    /\ lc[t].fn = "write_at_sync"
    /\ lc[t].pc = "locked"
    /\ IF read_only
       THEN /\ lc' = [lc EXCEPT ![t].seen = TRUE, ![t].pc = "done",
                                ![t].out = <<EROFS>>]
            /\ dlock' = 0
       ELSE /\ lc' = [lc EXCEPT ![t].seen = FALSE, ![t].pc = "write"]
            /\ dlock' = HolderAfterCheck(t)
    /\ UNCHANGED <<uiVars, mgrVars, attempts, read_only, last_set>>

\* the backing file's write_at is called; its error becomes EIO
WriteAtSyncWrite(t) ==
    /\ lc[t].fn = "write_at_sync"
    /\ lc[t].pc = "write"
    /\ \E r \in {OK, EIO} :
           lc' = [lc EXCEPT ![t].wrote = TRUE, ![t].flag = read_only,
                            ![t].pc = "done", ![t].out = <<r>>]
    /\ dlock' = IF dlock = t THEN 0 ELSE dlock
    /\ UNCHANGED <<uiVars, mgrVars, attempts, read_only, last_set>>

NextLoopDev ==
    \/ \E t \in LoopContexts, b \in BOOLEAN : SetReadOnly(t, b)
    \/ \E t \in LoopContexts, range \in BlockRanges : WriteAtSyncLock(t, range)
    \/ \E t \in LoopContexts : WriteAtSyncCheck(t)
    \/ \E t \in LoopContexts : WriteAtSyncWrite(t)

SpecLoopDev == InitLoop /\ [][NextLoopDev]_vars

---------------------------------------------------------------------------
(* Properties of the window state machine, checked under Spec *)

\* the operating line of a window and its write column
OperatingLine(w) == w.vlines[w.vline_operating]
Column(w) == OperatingLine(w).index

\* the last operation was this character, processed with output enabled
Wrote(character) == op.character = character /\ op.enabled

\* the last operation re-rendered the screen once, as its last step: a newline
\* that scrolled, or a backspace at column 0
Rerendered ==
    \/ Wrote(LF) /\ prev.vlines_used = actual_line
    \/ Wrote(BS) /\ Column(prev) = 0

\* C2: in every reachable state of a window with vline_sum >= 1, top_vline and
\* vline_operating are valid LineIds: both lie in 0 .. vline_sum - 1.
C2_ValidLineIds ==
    win.vline_sum >= 1 =>
        /\ win.top_vline \in 0 .. win.vline_sum - 1
        /\ win.vline_operating \in 0 .. win.vline_sum - 1

\* C2 witness: a scroll has just wrapped top_vline from the last line of the
\* ring back to line 0
C2_TopWrapped ==
    /\ Wrote(LF)
    /\ win.vline_sum >= 2
    /\ prev.top_vline = win.vline_sum - 1
    /\ win.top_vline = 0

\* C3 (as claimed): whenever a character operation returns an error, the window
\* is exactly as it was before that character.
C3_ErrorLeavesWindowUnchanged == ret # OK => win = prev

\* C4 (as claimed): every render targets a physical row in 0 .. R-1, and a full
\* re-render draws virtual line (top_vline + i) mod N at physical row i, for
\* each i in 0 .. R-1, lines that wrap past the end of the ring included.
C4_RowTranslation ==
    /\ \A i \in 1 .. Len(drawn) : drawn[i].row \in 0 .. actual_line - 1
    /\ Rerendered =>
           drawn = [i \in 1 .. actual_line |->
                       [by    |-> "vline",
                        vline |-> (win.top_vline + i - 1) % win.vline_sum,
                        row   |-> i - 1,
                        start |-> 0,
                        count |-> win.chars_per_line]]

\* the cell a write of character with the last operation's colours leaves
Stored(character) ==
    [c |-> character, frcolor |-> op.frcolor, bkcolor |-> op.bkcolor]

\* a line as textui_new_line and the backspace at column 0 leave it: every
\* cell blank and black, write column 0
Cleared(line) ==
    /\ line.index = 0
    /\ \A i \in DOMAIN line.chars : line.chars[i] = BlankChar

\* everything written so far is printable / is a newline
AllPrintable == \A i \in 1 .. Len(written) : written[i] \in Printable
AllNewlines  == \A i \in 1 .. Len(written) : written[i] = LF

\* C5: starting at column 0, C-1 printable characters fill the one line and
\* leave the cursor at column C-1 with no newline; the C-th triggers a newline.
\* Stated per character (a printable character written at column j < C-1 stays
\* on the line and moves the cursor to j+1; written at column C-1 it starts a
\* new line) and for the run of printable characters from a fresh window.
C5_LineFill ==
    LET C == win.chars_per_line
        j == Column(prev)
        v == prev.vline_operating
        k == Len(written)
    IN  /\ (op.enabled /\ op.character \in Printable /\ j \in 0 .. C - 2) =>
               win = [prev EXCEPT !.vlines[v].chars[j] = Stored(op.character),
                                  !.vlines[v].index = j + 1]
        /\ (op.enabled /\ op.character \in Printable /\ j = C - 1) =>
               /\ win.vline_operating = (v + 1) % win.vline_sum
               /\ Cleared(OperatingLine(win))
               /\ win.vline_sum > 1 =>
                      /\ win.vlines[v].chars[j] = Stored(op.character)
                      /\ win.vlines[v].index = C
        /\ (k >= 1 /\ k <= C - 1 /\ AllPrintable) =>
               /\ win.vline_operating = 0
               /\ Column(win) = k
               /\ \A i \in 1 .. k : win.vlines[0].chars[i - 1].c = written[i]
               /\ \A i \in k .. C - 1 : win.vlines[0].chars[i] = BlankChar
               /\ win.vlines_used = 1
               /\ win.top_vline = 0
        /\ (k >= 1 /\ k = C /\ AllPrintable) =>
               /\ win.vline_operating = 1 % win.vline_sum
               /\ Column(win) = 0
               /\ win.vline_sum > 1 =>
                      \A i \in 1 .. k : win.vlines[0].chars[i - 1].c = written[i]

\* C5 witness: the C-th printable character of a fresh window of at least two
\* columns and two lines has just been written, and has started line 1
C5_LastColumnWritten ==
    /\ win.chars_per_line >= 2
    /\ win.vline_sum >= 2
    /\ Len(written) = win.chars_per_line
    /\ AllPrintable
    /\ Column(prev) = win.chars_per_line - 1
    /\ win.vline_operating = 1

\* C6 (as claimed): after R+1 newlines on a fresh window top_vline is 1 mod N
\* and vlines_used is R.
C6_ScrollAfterRPlusOne ==
    (Len(written) = actual_line + 1 /\ AllNewlines) =>
        /\ win.top_vline = 1 % win.vline_sum
        /\ win.vlines_used = actual_line

\* C6 (amended): a fresh window counts its first line as used, so the R-th
\* newline is the first to scroll: after k < R newlines top_vline is still 0 and
\* vlines_used is k+1; after R newlines top_vline is 1 mod N and vlines_used is
\* R; after R+1 newlines top_vline is 2 mod N and vlines_used is R.
C6_ScrollAfterR ==
    /\ (Len(written) < actual_line /\ AllNewlines) =>
           /\ win.top_vline = 0
           /\ win.vlines_used = Len(written) + 1
    /\ (Len(written) = actual_line /\ AllNewlines) =>
           /\ win.top_vline = 1 % win.vline_sum
           /\ win.vlines_used = actual_line
    /\ (Len(written) = actual_line + 1 /\ AllNewlines) =>
           /\ win.top_vline = 2 % win.vline_sum
           /\ win.vlines_used = actual_line

\* C6 witness: R >= 2 newlines written to a fresh window of more than R lines
C6_FirstScroll ==
    /\ actual_line >= 2
    /\ win.vline_sum > actual_line
    /\ Len(written) = actual_line
    /\ AllNewlines
    /\ win.top_vline = 1

\* C7: a backspace at column 0 of operating line k moves vline_operating to
\* k-1, or to vline_sum-1 when k = 0, and clears the line the cursor was on
\* (line k); nothing else of the window changes but vlines_used, which drops by
\* one, so line k-1 keeps its cells and its column.
C7_BackspaceAtColumnZero ==
    LET k == prev.vline_operating
    IN  (Wrote(BS) /\ Column(prev) = 0) =>
            /\ win.vline_operating = (IF k > 0 THEN k - 1 ELSE win.vline_sum - 1)
            /\ Cleared(win.vlines[k])
            /\ \A v \in DOMAIN win.vlines : v # k => win.vlines[v] = prev.vlines[v]
            /\ win.vlines_used = prev.vlines_used - 1

\* C7 witness: a backspace at column 0 of line 0, which held a blanked cell,
\* has cleared line 0 and wrapped the cursor to the last line
C7_WrappedToLastLine ==
    /\ Wrote(BS)
    /\ Column(prev) = 0
    /\ prev.vline_operating = 0
    /\ prev.vlines[0].chars[0].c = SPACE
    /\ win.vlines[0].chars[0].c = None
    /\ win.vline_sum >= 2
    /\ win.vline_operating = win.vline_sum - 1

\* the renders of single cells among the last operation's renders: one per
\* character written through true_textui_putchar_window
CellRenders == SelectSeq(drawn, LAMBDA d : d.by = "characters")

\* the last operation wrote the cells from .. to-1 of the operating line and
\* moved the cursor to column to, with no newline
StayedOnLine(from, to) ==
    LET v == prev.vline_operating
    IN  win = [prev EXCEPT
                 !.vlines[v].chars = [i \in DOMAIN @ |->
                                         IF i \in from .. to - 1 THEN Stored(SPACE)
                                         ELSE @[i]],
                 !.vlines[v].index = to]

\* C8 (as claimed): a tab at column c emits 8 - c%8 space writes, none of them
\* at or beyond chars_per_line, and moves the cursor to c + (8 - c%8) unless
\* that target meets or exceeds chars_per_line - 1, when a newline is triggered.
C8_TabNewlineFromLastColumn ==
    LET C == win.chars_per_line
        c == Column(prev)
        n == 8 - (c % 8)
        t == c + n
    IN  (Wrote(TAB) /\ c \in 0 .. C - 1) =>
            /\ Len(CellRenders) = n
            /\ \A i \in 1 .. n : CellRenders[i].start \in 0 .. C - 1
            /\ IF t >= C - 1 THEN ~StayedOnLine(c, t) ELSE StayedOnLine(c, t)

\* C8 (amended): a tab at column c < chars_per_line emits 8 - c%8 space writes,
\* each into a cell of a line (column below chars_per_line). If the target
\* t = c + (8 - c%8) is at most chars_per_line - 1 the spaces fill columns
\* c .. t-1 and the cursor rests at column t of the same line, with no newline,
\* also when t = chars_per_line - 1. If t >= chars_per_line, a newline is
\* triggered by each write into the last column: t div chars_per_line newlines
\* in all, the cursor ending at column t mod chars_per_line.
C8_TabNewlinePastLastColumn ==
    LET C == win.chars_per_line
        N == win.vline_sum
        c == Column(prev)
        n == 8 - (c % 8)
        t == c + n
        m == t \div C
        free == actual_line - prev.vlines_used
    IN  (Wrote(TAB) /\ c \in 0 .. C - 1) =>
            /\ ret = OK
            /\ Len(CellRenders) = n
            /\ \A i \in 1 .. n : CellRenders[i].start \in 0 .. C - 1
            /\ t <= C - 1 => StayedOnLine(c, t)
            /\ t >= C =>
                   /\ win.vline_operating = (prev.vline_operating + m) % N
                   /\ Column(win) = t % C
                   /\ \A i \in 0 .. (t % C) - 1 : OperatingLine(win).chars[i] = Stored(SPACE)
                   /\ \A i \in (t % C) .. C - 1 : OperatingLine(win).chars[i] = BlankChar
                   /\ prev.vlines_used <= actual_line =>
                          IF m <= free
                          THEN /\ win.vlines_used = prev.vlines_used + m
                               /\ win.top_vline = prev.top_vline
                          ELSE /\ win.vlines_used = actual_line
                               /\ win.top_vline = (prev.top_vline + m - free) % N

\* C8 witness: a tab from column 0 of a 9-column line has written 8 spaces and
\* left the cursor at column 8, the last one, on the same line
C8_TabEndsOnLastColumn ==
    /\ Wrote(TAB)
    /\ win.chars_per_line = 9
    /\ Column(prev) = 0
    /\ Column(win) = 8
    /\ win.vline_operating = prev.vline_operating
    /\ Len(CellRenders) = 8

\* the window of scenarios A and B
ScenarioABWindow ==
    /\ win.chars_per_line = 8
    /\ win.vline_sum = 4
    /\ actual_line = 2

\* C9: scenario A. On a fresh window of 8 columns, 4 lines and 2 visible rows,
\* ABCDEFG and a newline leave line 0 holding ABCDEFG, the cursor at line 1
\* column 0, vlines_used = 2 and top_vline = 0.
C9_ScenarioA ==
    (ScenarioABWindow /\ written = SubSeq(ScenarioAB, 1, 8)) =>
        /\ \A i \in 1 .. 7 : win.vlines[0].chars[i - 1].c = ScenarioAB[i]
        /\ win.vlines[0].chars[7].c = None
        /\ win.vline_operating = 1
        /\ Column(win) = 0
        /\ win.vlines_used = 2
        /\ win.top_vline = 0

\* C9 witness: the end of scenario A
C9_ScenarioAEnd ==
    /\ ScenarioABWindow
    /\ written = SubSeq(ScenarioAB, 1, 8)
    /\ Wrote(LF)
    /\ win.vlines[0].chars[6].c = "G"

\* C10: scenario B. One more newline from the end of scenario A, where
\* vlines_used = visible rows = 2, sets top_vline to 1, makes line 2 the cleared
\* operating line at column 0 and leaves vlines_used at 2.
C10_ScenarioB ==
    (ScenarioABWindow /\ written = ScenarioAB) =>
        /\ prev.vlines_used = 2
        /\ prev.top_vline = 0
        /\ prev.vline_operating = 1
        /\ win.top_vline = 1
        /\ win.vline_operating = 2
        /\ Cleared(win.vlines[2])
        /\ win.vlines_used = 2
        /\ \A i \in 1 .. 7 : win.vlines[0].chars[i - 1].c = ScenarioAB[i]

\* C10 witness: the end of scenario B
C10_ScenarioBEnd ==
    /\ ScenarioABWindow
    /\ written = ScenarioAB
    /\ Wrote(LF)
    /\ win.top_vline = 1

\* the characters held by the cells of a line, in column order
LineText(line) == [i \in 1 .. Cardinality(DOMAIN line.chars) |->
                      line.chars[i - 1].c]

\* scenario C has just been written to a fresh window of 4 columns
ScenarioCWritten == win.chars_per_line = 4 /\ written = ScenarioC

\* C11 (as claimed): scenario C on any fresh window of 4 columns. After A, B and
\* a tab, line 0 holds A, B and two spaces, and the line begun by the newline
\* holds the remaining four spaces.
C11_ScenarioC ==
    ScenarioCWritten =>
        /\ LineText(win.vlines[0]) = <<"A", "B", SPACE, SPACE>>
        /\ LineText(win.vlines[1 % win.vline_sum]) = <<SPACE, SPACE, SPACE, SPACE>>

\* C11 (amended): the tab at column 2 writes six spaces: columns 2 and 3 of
\* line 0, the second starting a new line, and columns 0 to 3 of that line,
\* the last of them starting a second new line. On a window of at least 3
\* lines line 0 holds A, B and two spaces, line 1 holds four spaces and the
\* cursor ends at column 0 of the cleared line 2. On a window of 1 or 2 lines
\* the second new line is line 0 again, so line 0 ends cleared with the cursor
\* at its column 0.
C11_ScenarioCThreeLines ==
    ScenarioCWritten =>
        /\ ret = OK
        /\ [i \in 1 .. 6 |-> <<CellRenders[i].vline, CellRenders[i].start>>]
               = << <<0, 2>>, <<0, 3>>,
                    <<1 % win.vline_sum, 0>>, <<1 % win.vline_sum, 1>>,
                    <<1 % win.vline_sum, 2>>, <<1 % win.vline_sum, 3>> >>
        /\ Len(CellRenders) = 6
        /\ win.vline_sum >= 3 =>
               /\ LineText(win.vlines[0]) = <<"A", "B", SPACE, SPACE>>
               /\ LineText(win.vlines[1]) = <<SPACE, SPACE, SPACE, SPACE>>
               /\ win.vline_operating = 2
               /\ Cleared(win.vlines[2])
        /\ win.vline_sum <= 2 =>
               /\ win.vline_operating = 0
               /\ Cleared(win.vlines[0])
        /\ win.vline_sum = 2 =>
               LineText(win.vlines[1]) = <<SPACE, SPACE, SPACE, SPACE>>

\* C11 witness: the end of scenario C on a window of 3 lines
C11_ScenarioCEnd ==
    /\ ScenarioCWritten
    /\ win.vline_sum = 3
    /\ Wrote(TAB)
    /\ Column(prev) = 2
    /\ win.vline_operating = 2

\* C13: whatever is written to a fresh window, vlines_used never exceeds the
\* number of visible rows: it grows by one per newline up to that number, and
\* only a newline that finds it equal to that number scrolls (moves top_vline)
\* instead of growing it.
C13_UsedWithinRows ==
    /\ win.vlines_used <= actual_line
    /\ Wrote(LF) =>
           IF prev.vlines_used = actual_line
           THEN /\ win.vlines_used = actual_line
                /\ win.top_vline = (prev.top_vline + 1) % win.vline_sum
           ELSE /\ win.vlines_used = prev.vlines_used + 1
                /\ win.top_vline = prev.top_vline

\* C13 witness: a newline on a window of at least 2 rows, all in use, has
\* scrolled and left vlines_used at the number of rows
C13_ScrolledAtCapacity ==
    /\ Wrote(LF)
    /\ actual_line >= 2
    /\ prev.vlines_used = actual_line
    /\ win.vlines_used = actual_line
    /\ win.top_vline # prev.top_vline

\* C17: the null character and the carriage return are no-ops: fed to a
\* window in any state, either one returns Ok and leaves the whole window
\* unchanged; nothing is rendered and nothing goes to the serial port.
C17_NulCrNoOp ==
    op.character \in {NUL, CR} =>
        /\ ret = OK
        /\ win = prev
        /\ drawn = <<>>
        /\ sent = <<>>

\* C17 witness: a null character and then a carriage return were fed to a
\* window whose write column was not 0, and left it as it was
C17_NulThenCrMidLine ==
    /\ Len(written) >= 3
    /\ written[Len(written) - 1] = NUL
    /\ op.character = CR
    /\ Column(prev) > 0
    /\ win = prev

\* the last operation stored its character with its colours in the cell at
\* column j of the operating line and rendered that one cell
PrintedAt(j) ==
    /\ ret = OK
    /\ Len(CellRenders) = 1
    /\ CellRenders[1].vline = prev.vline_operating
    /\ CellRenders[1].start = j
    /\ CellRenders[1].count = 1

\* ... and left the cursor at column j + 1 of the same line: nothing else
\* changed
PrintedStays(j) ==
    LET v == prev.vline_operating
    IN  win = [prev EXCEPT !.vlines[v].chars[j] = Stored(op.character),
                           !.vlines[v].index = j + 1]

\* ... and triggered a newline: the operating line is the next one, cleared,
\* and the line written (if it is another one) holds the character
PrintedThenNewline(j) ==
    LET v == prev.vline_operating
    IN  /\ win.vline_operating = (v + 1) % win.vline_sum
        /\ Cleared(OperatingLine(win))
        /\ win.vline_sum > 1 =>
               /\ win.vlines[v].chars[j] = Stored(op.character)
               /\ win.vlines[v].index = j + 1

\* C19 (as claimed): a printable character is stored with its colours in the
\* cell at (vline_operating, column), where the operating line has one, the
\* column advances by 1, and a newline
\* is triggered as soon as the advanced column reaches chars_per_line - 1.
C19_NewlineAtCursorColumn ==
    LET j == Column(prev)
    IN  (op.enabled /\ op.character \in Printable /\ j \in 0 .. win.chars_per_line - 1) =>
            /\ PrintedAt(j)
            /\ IF j + 1 >= win.chars_per_line - 1
               THEN PrintedThenNewline(j)
               ELSE PrintedStays(j)

\* C19 (amended): a printable character written at a column below
\* chars_per_line (the operating line has a cell there) is stored with its
\* colours in the cell at (vline_operating, column) and the column advances by 1; a newline
\* is triggered when the advanced column reaches chars_per_line, that is when
\* the character was written into the last column chars_per_line - 1. An
\* advanced column of chars_per_line - 1 triggers none: the cursor rests on
\* the last column.
C19_NewlineAfterLastColumn ==
    LET j == Column(prev)
    IN  (op.enabled /\ op.character \in Printable /\ j \in 0 .. win.chars_per_line - 1) =>
            /\ PrintedAt(j)
            /\ IF j + 1 >= win.chars_per_line
               THEN PrintedThenNewline(j)
               ELSE PrintedStays(j)

\* C19 witness: a printable character was written at column chars_per_line - 2
\* and left the cursor on the last column of the same line
C19_CursorOnLastColumn ==
    /\ op.enabled /\ op.character \in Printable
    /\ win.chars_per_line >= 2
    /\ Column(prev) = win.chars_per_line - 2
    /\ win.vline_operating = prev.vline_operating
    /\ Column(win) = win.chars_per_line - 1
    /\ OperatingLine(win).chars[Column(prev)] = Stored(op.character)

\* C20: a newline transition advances vline_operating by 1 modulo vline_sum,
\* sets every cell of the new operating line to blank with black colours and
\* its column to 0; then, if vlines_used equals the number of visible rows, it
\* advances top_vline by 1 modulo vline_sum and leaves vlines_used unchanged,
\* otherwise it increments vlines_used and leaves top_vline unchanged. Nothing
\* else of the window changes.
C20_NewlineTransition ==
    LET v      == (prev.vline_operating + 1) % prev.vline_sum
        scroll == prev.vlines_used = actual_line
    IN  Wrote(LF) =>
            win = [prev EXCEPT
                     !.vline_operating = v,
                     !.vlines[v] = [chars |-> [i \in 0 .. prev.chars_per_line - 1 |->
                                                 [c |-> None, frcolor |-> BLACK,
                                                  bkcolor |-> BLACK]],
                                    index |-> 0],
                     !.top_vline = IF scroll THEN (@ + 1) % prev.vline_sum ELSE @,
                     !.vlines_used = IF scroll THEN @ ELSE @ + 1]

\* C20 witness: a newline has wrapped vline_operating from the last line to
\* line 0, cleared what line 0 held, and scrolled
C20_WrappedAndScrolled ==
    /\ Wrote(LF)
    /\ win.vline_sum >= 2
    /\ prev.vline_operating = win.vline_sum - 1
    /\ win.vline_operating = 0
    /\ prev.vlines[0].chars[0].c = "A"
    /\ Cleared(win.vlines[0])
    /\ prev.vlines_used = actual_line
    /\ win.top_vline = (prev.top_vline + 1) % win.vline_sum

\* the last operation changed, of the whole window, only the operating
\* line's column, now j - 1, and the cell at column j - 1, now cell
BackspacedTo(j, cell) ==
    LET v == prev.vline_operating
    IN  win = [prev EXCEPT !.vlines[v].chars[j - 1] = cell,
                           !.vlines[v].index = j - 1]

\* C21 (as claimed): a backspace at a column greater than 0 decrements the
\* column by 1 and makes the cell at the new column blank (a space, or no
\* character) while that cell keeps the background colour it had;
\* vline_operating, top_vline, vlines_used and all other cells are unchanged.
C21_BackspaceKeepsCellBackground ==
    LET j   == Column(prev)
        old == OperatingLine(prev).chars[j - 1]
    IN  (Wrote(BS) /\ j > 0) =>
            \/ BackspacedTo(j, [old EXCEPT !.c = SPACE])
            \/ BackspacedTo(j, [old EXCEPT !.c = None])

\* C21 (amended): a backspace at a column greater than 0 decrements the column
\* by 1 and leaves vline_operating, top_vline, vlines_used and all other cells
\* unchanged. If the new column has a cell (the column was at most
\* chars_per_line) it sets that cell's character to a space and its background
\* colour to the background colour passed with the backspace, keeps the cell's
\* foreground colour and renders that one cell; otherwise it changes no cell,
\* renders nothing and returns EINVAL.
C21_BackspaceSetsCellBackground ==
    LET j   == Column(prev)
        v   == prev.vline_operating
        old == OperatingLine(prev).chars[j - 1]
    IN  (Wrote(BS) /\ j > 0) =>
            IF j <= prev.chars_per_line
            THEN /\ BackspacedTo(j, [c |-> SPACE, frcolor |-> old.frcolor,
                                     bkcolor |-> op.bkcolor])
                 /\ ret = OK
                 /\ Len(drawn) = 1
                 /\ drawn[1].vline = v
                 /\ drawn[1].start = j - 1
                 /\ drawn[1].count = 1
            ELSE /\ win = [prev EXCEPT !.vlines[v].index = j - 1]
                 /\ ret = EINVAL
                 /\ drawn = <<>>

\* C21 witness: a backspace with a black background has stepped back onto a
\* cell written on a white background, and the cell is now a space on black
C21_BackgroundReplaced ==
    /\ Wrote(BS)
    /\ Column(prev) > 0
    /\ OperatingLine(prev).chars[Column(prev) - 1].c \in Printable
    /\ OperatingLine(prev).chars[Column(prev) - 1].bkcolor = WHITE
    /\ op.bkcolor = BLACK
    /\ OperatingLine(win).chars[Column(win)] =
           [c |-> SPACE, frcolor |-> BLACK, bkcolor |-> BLACK]

\* C22 (as claimed): no sequence of printable characters, newlines, tabs and
\* backspaces corrupts the column index: in every reachable state the write
\* column of every line lies in 0 .. chars_per_line, and every cell a character
\* operation rendered lies at a column in 0 .. chars_per_line - 1.
C22_ColumnsInRange ==
    /\ \A v \in DOMAIN win.vlines :
           win.vlines[v].index \in 0 .. win.chars_per_line
    /\ \A i \in 1 .. Len(drawn) :
           /\ drawn[i].start \in 0 .. win.chars_per_line - 1
           /\ drawn[i].start + drawn[i].count <= win.chars_per_line

\* the last operation, a printable character, was stored in a cell of the
\* window and that cell was rendered (a one-line ring clears the cell again
\* when the newline after the last column wraps onto the same line)
StoredAndRendered ==
    /\ Len(CellRenders) = 1
    /\ CellRenders[1].start \in 0 .. win.chars_per_line - 1
    /\ \/ win.vlines[CellRenders[1].vline].chars[CellRenders[1].start] =
              Stored(op.character)
       \/ win.vline_sum = 1 /\ Cleared(win.vlines[0])

\* the last operation, a tab, wrote and rendered each of its 8 - c%8 spaces
TabSpacesRendered ==
    /\ Len(CellRenders) = TabStop - (Column(prev) % TabStop)
    /\ \A i \in 1 .. Len(CellRenders) :
           CellRenders[i].start \in 0 .. win.chars_per_line - 1

\* the last operation, a newline or a backspace, performed its transition
ControlTransition ==
    \/ /\ op.character = LF
       /\ win.vline_operating = (prev.vline_operating + 1) % win.vline_sum
       /\ Column(win) = 0
    \/ /\ op.character = BS
       /\ Column(prev) > 0
       /\ win.vline_operating = prev.vline_operating
       /\ Column(win) = Column(prev) - 1
    \/ /\ op.character = BS
       /\ Column(prev) = 0
       /\ win.vlines_used = prev.vlines_used - 1
       /\ Cleared(win.vlines[prev.vline_operating])

\* C23: with window output enabled no character is silently dropped. Every
\* character fed to the window is stored and rendered (printable, and each
\* space of a tab), performs its control transition (newline, backspace), is
\* one of the no-ops (NUL, CR), or returns an error, which textui_putstr
\* returns to its caller; none returns Ok having done nothing.
C23_NoSilentDrop ==
    (op.enabled /\ op.character # None /\ ret = OK) =>
        \/ op.character \in {NUL, CR} /\ win = prev
        \/ op.character \in Printable /\ StoredAndRendered
        \/ op.character = TAB /\ TabSpacesRendered
        \/ ControlTransition

\* C23 witness: a tab at a column with no cell (the column of a full line,
\* reached by a backspace) was not dropped in silence: it returned an error
C23_TabWithNoCellFails ==
    /\ Wrote(TAB)
    /\ Column(prev) = win.chars_per_line
    /\ ret = EINVAL
    /\ drawn = <<>>

\* the operating line is the last of the lines in use, counted round the ring
\* from the top line
OperatingIsLastUsed(w) ==
    (w.top_vline + w.vlines_used - 1 - w.vline_operating) % w.vline_sum = 0

\* C30: in every state reachable from a fresh window by any sequence of
\* characters, backspaces and failed operations included, vline_operating is
\* congruent to top_vline + vlines_used - 1 modulo vline_sum.
C30_OperatingIsLastUsed == OperatingIsLastUsed(win)

\* C30 witness: a backspace at column 0 took the operating line back on a
\* window that had scrolled and whose screen was full.
C30_RetreatedAfterScroll ==
    /\ Wrote(BS)
    /\ Column(prev) = 0
    /\ prev.top_vline # 0
    /\ prev.vlines_used = actual_line
    /\ win.vlines_used = prev.vlines_used - 1
    /\ win.vline_operating = PrevLineId(prev, prev.vline_operating)

\* C31: no backspace ever changes top_vline: vlines_used never exceeds the
\* number of visible rows, so the branch that steps top_vline back is never
\* taken; a backspace at column 0 of a window whose screen is full (as one that
\* follows a newline that scrolled) moves vline_operating back and sets
\* vlines_used to the number of visible rows less 1, and leaves top_vline.
C31_BackspaceKeepsTop ==
    /\ win.vlines_used <= actual_line
    /\ ~ScrollBackNeeded(prev, actual_line)
    /\ Wrote(BS) => win.top_vline = prev.top_vline
    /\ (Wrote(BS) /\ Column(prev) = 0 /\ prev.vlines_used = actual_line) =>
           /\ win.vline_operating = PrevLineId(prev, prev.vline_operating)
           /\ win.vlines_used = actual_line - 1

\* C31 witness: a newline scrolled the view and the backspace that followed it
\* left top_vline advanced.
C31_BackspaceAfterScroll ==
    /\ Len(written) >= 2
    /\ written[Len(written) - 1] = LF
    /\ Wrote(BS)
    /\ prev.vlines_used = actual_line
    /\ prev.top_vline # 0
    /\ win.top_vline = prev.top_vline
    /\ win.vlines_used = actual_line - 1

\* C32: a backspace at column 0 has no lower guard on vlines_used: on a fresh
\* window (vline_operating = 0, vlines_used = 1) it succeeds, moves
\* vline_operating to vline_sum - 1 and sets vlines_used to 0, and every
\* further backspace at column 0 decrements vlines_used again, below 0.
C32_BackspaceUnguarded ==
    (Wrote(BS) /\ Column(prev) = 0) =>
        /\ win.vlines_used = prev.vlines_used - 1
        /\ win.vline_operating = PrevLineId(prev, prev.vline_operating)
        /\ prev = TextuiWindowNew(prev.vline_sum, prev.chars_per_line) =>
               /\ ret = OK
               /\ win.vline_operating = win.vline_sum - 1
               /\ win.vlines_used = 0

\* C32 witness: two backspaces on a fresh window have made vlines_used negative.
C32_NegativeLinesUsed ==
    /\ written = <<BS, BS>>
    /\ Wrote(BS)
    /\ ret = OK
    /\ prev.vlines_used = 0
    /\ win.vlines_used = -1

\* C33 (as claimed): the cursor line is always one of the visible rows: on a
\* window with no more visible rows than lines, (vline_operating - top_vline)
\* mod vline_sum is less than the number of visible rows in every reachable
\* state, so every single-cell render of a printable character or a backspace
\* targets a row inside the screen.
C33_CursorLineVisible ==
    actual_line <= win.vline_sum =>
        /\ (win.vline_operating - win.top_vline) % win.vline_sum < actual_line
        /\ \A i \in 1 .. Len(drawn) :
               drawn[i].by = "characters" => drawn[i].row \in 0 .. actual_line - 1

---------------------------------------------------------------------------
(* Properties of refresh requests, checked under SpecRefresh *)

\* the last operation was a refresh request that addresses at least one cell
Refreshed == op.character = "refresh" /\ op.count >= 1

\* C12 (as claimed): a refresh request that addresses a line outside
\* 0 .. vline_sum-1, or a column outside 0 .. chars_per_line-1, fails with
\* EINVAL and leaves the window as it was.
C12_RefreshBoundsCheck ==
    (/\ Refreshed
     /\ \/ op.vline_id \notin 0 .. win.vline_sum - 1
        \/ \E i \in op.start .. op.start + op.count - 1 : i \notin 0 .. win.chars_per_line - 1)
    => (ret = EINVAL /\ win = prev /\ drawn = <<>>)

---------------------------------------------------------------------------
(* Properties of textui_putstr, checked under SpecPutstr *)

\* the characters a context has fed to the window, in order
EntriesOf(t) == SelectSeq(log, LAMBDA x : x.context = t)

\* the window the framework was initialized with
FreshWindow == TextuiWindowNew(win.vline_sum, win.chars_per_line)

\* the window after context a's string and then context b's, each run whole
Sequential(a, b) == RunEntries(RunEntries(FreshWindow, EntriesOf(a), 1), EntriesOf(b), 1)

\* C1: two concurrent textui_putstr calls on the same window. Each holds the
\* window's lock from before its first character until after its last one (it
\* holds it whenever it is in its loop, and it leaves the loop only with its
\* string exhausted or on a character's error); the characters of the two
\* strings are never interleaved; and once both calls have returned the window
\* is the one left by running the two strings one after the other in one of
\* the two orders.
C1_PutstrAtomic ==
    /\ \A t \in Contexts : pc[t] = "loop" => lock = t
    /\ \A t \in Contexts : lock = t => pc[t] = "loop"
    /\ \A t \in Contexts :
           (pc[t] = "done" /\ todo[t] # <<>>) =>
               /\ EntriesOf(t) # <<>>
               /\ EntriesOf(t)[Len(EntriesOf(t))].ret # OK
    /\ \A i, j, k \in 1 .. Len(log) :
           (i < j /\ j < k /\ log[i].context = log[k].context) =>
               log[j].context = log[i].context
    /\ (\A t \in Contexts : pc[t] = "done") =>
           \E a, b \in Contexts : a # b /\ win = Sequential(a, b)

\* C1 witness: both calls have returned after two characters each, context 2
\* having won the lock, and the order mattered: the window differs from the
\* one the other order leaves
C1_BothReturned ==
    /\ \A t \in Contexts : pc[t] = "done" /\ Len(EntriesOf(t)) >= 2
    /\ log[1].context = 2
    /\ win = Sequential(2, 1)
    /\ win # Sequential(1, 2)

\* C14 (as claimed): a character that fails aborts only itself; textui_putstr
\* goes on with the rest of the string, so a call that has returned has
\* processed every character of its string.
C14_ErrorAbortsCharacterOnly ==
    \A t \in Contexts : pc[t] = "done" => todo[t] = <<>>

\* C14 (amended): a character that fails aborts the whole string:
\* textui_putstr returns at once, dropping the window's lock, and the remaining
\* characters of the string are never processed. So a failed character is the
\* last one its call has fed to the window, and its call has returned.
C14_ErrorAbortsString ==
    \A t \in Contexts :
        \A i \in 1 .. Len(EntriesOf(t)) :
            EntriesOf(t)[i].ret # OK =>
                /\ i = Len(EntriesOf(t))
                /\ pc[t] = "done"
                /\ lock # t

\* C14 witness: a call has returned on a failed character with characters of
\* its string left unprocessed
C14_StringCutShort ==
    \E t \in Contexts :
        /\ pc[t] = "done"
        /\ todo[t] # <<>>
        /\ EntriesOf(t) # <<>>
        /\ EntriesOf(t)[Len(EntriesOf(t))].ret = EINVAL

\* the entries of the log from the k-th on were all fed with output disabled
DisabledFrom(k) == \A i \in k .. Len(log) : ~log[i].enabled

\* C16: while window output is disabled, the characters textui_putstr feeds
\* (printable, newline, tab, backspace) return Ok and leave the whole window
\* unchanged (cells, columns, vline_operating, top_vline, vlines_used), nothing
\* is rendered, and each character still goes to the serial port (a newline
\* followed by a carriage return). Strings fed wholly with output disabled
\* leave the window as it was initialized.
C16_DisabledLeavesWindow ==
    /\ (op.character \in Printable \cup {LF, TAB, BS} /\ ~op.enabled) =>
           /\ ret = OK
           /\ win = prev
           /\ drawn = <<>>
           /\ sent = (IF op.character = LF THEN <<LF, CR>> ELSE <<op.character>>)
    /\ DisabledFrom(1) => win = FreshWindow

\* C16 witness: after a character written with output enabled, a newline was
\* fed with output disabled and went to the serial port only
C16_DisabledNewline ==
    /\ Len(log) >= 2
    /\ log[1].enabled /\ log[1].character \in Printable
    /\ ~op.enabled /\ op.character = LF
    /\ win = prev /\ win # FreshWindow
    /\ sent = <<LF, CR>>

\* the last step fed a character of a string to textui_putchar_window
FedCharacter == log # <<>> /\ op.character = log[Len(log)].character

\* C24 (as claimed): every character of the string is mirrored to the serial
\* port, a newline followed by '\r', whether or not window output is enabled
\* and whatever the window operation then returns.
C24_EveryCharacterMirrored ==
    FedCharacter =>
        sent = (IF op.character = LF THEN <<LF, CR>> ELSE <<op.character>>)

\* C24 (amended): every character of the string other than NUL and '\r' is
\* mirrored to the serial port, a newline followed by '\r', before the window
\* is touched: whether or not window output is enabled, and also when the
\* window operation then fails. NUL and '\r' are dropped before the mirror:
\* nothing is sent for them.
C24_MirroredButNulCr ==
    FedCharacter =>
        sent = (IF op.character \in {NUL, CR} THEN <<>>
                ELSE IF op.character = LF THEN <<LF, CR>>
                ELSE <<op.character>>)

\* C24 witness: a tab was sent to the serial port although the window
\* operation that followed failed
C24_SentBeforeFailure ==
    /\ FedCharacter
    /\ op.character = TAB
    /\ op.enabled
    /\ ret = EINVAL
    /\ sent = <<TAB>>

---------------------------------------------------------------------------
(* Properties of FontColor, checked under SpecColor *)

\* C18: a FontColor's value is always below 2^24. FontColor::new(r, g, b) is
\* r * 65536 + g * 256 + b; a FontColor made from a u32 v holds v mod 2^24;
\* and the u32 read from a FontColor is that same 24-bit value.
C18_ColorBelow2To24 ==
    /\ fc.value \in 0 .. 16777215
    /\ fc.made = "new" =>
           fc.value = fc.args[1] * 65536 + fc.args[2] * 256 + fc.args[3]
    /\ fc.made = "from" => fc.value = fc.args[1] % 16777216
    /\ fc.out # <<>> =>
           /\ fc.out[1] = fc.value
           /\ fc.out[1] \in 0 .. 16777215

\* C18 witness: a FontColor was made from a u32 with bits set above bit 23 and
\* read back as the low 24 bits
C18_HighBitsDropped ==
    /\ fc.made = "from"
    /\ fc.args[1] = 305419896
    /\ fc.out = <<3430008>>

---------------------------------------------------------------------------
(* Properties of the glyph renderers, checked under SpecGlyph *)

\* C25 (as claimed): for every 8-bit row mask and every pixel column col in
\* 0 .. 7, the renderer writes the foreground colour iff bit (7 - col) of the
\* mask is set and the background colour otherwise; for the window renderer
\* and for the renderer used before initialization.
C25_PixelFollowsBit ==
    px.renderer # None =>
        /\ px.ret = OK
        /\ \A col \in 0 .. 7 :
               px.pixels[col + 1] =
                   (IF Bit(px.mask, 7 - col) THEN px.frcolor ELSE px.bkcolor)

---------------------------------------------------------------------------
(* Properties of the frame buffer's reconfiguration, checked under SpecChange *)

\* C26 (as claimed): the visible-row count the window operations use
\* (actual_line) is the frame buffer's height divided by the glyph height in
\* every reachable state, also after change has installed a buf_info of
\* another height.
C26_RowsFollowHeight ==
    actual_line = metadata.height \div TEXTUI_CHAR_HEIGHT

\* C27 (as claimed): change holds exclusive access to the metadata across the
\* whole reconfiguration, so no render reads the new metadata between the swap
\* and the end of the copy of the old content, and no render reads two
\* different metadata values while drawing one character.
C27_ChangeExclusive ==
    /\ ~rnd.early
    /\ Cardinality(rnd.seen) <= 1

\* C28: with a double buffer (the lock-guarded pixel surface) the surface
\* lock is taken and released once per rendered character cell. The render
\* holds it while it draws the cell's glyph rows and at no other time: it is
\* released when the render of the cell returns, and is not held before the
\* next cell's render has built its TextuiBuf, so never between two cell
\* renders, whatever sequence of cells (a line, a screen, a string) is drawn.
C28_SurfaceLockPerCell ==
    /\ slock = "render" => rnd.pc = "rows"
    /\ (rnd.pc = "rows" /\ rnd.binding.buf = "DoubleBuffer") => slock = "render"
    /\ rnd.pc \in {"idle", "binding", "buf"} => slock # "render"

\* C28 witness: a cell's render on a double buffer has drawn its 16 glyph rows
\* and returned, and before the next cell's render the display refresh has
\* taken the surface lock
C28_FlushBetweenCells ==
    /\ rnd.pc = "idle"
    /\ rnd.row = TEXTUI_CHAR_HEIGHT
    /\ rnd.binding.buf = "DoubleBuffer"
    /\ slock = "refresh"

---------------------------------------------------------------------------
(* Properties of textui_putstr during initialization, checked under SpecEarly *)

\* C29 (as claimed): within one textui_putstr call every character takes the
\* route chosen when the call started, also when TEXTUI_IS_INIT becomes true
\* while the call is in its loop: a call that started without a guard feeds
\* all its characters to the pre-initialization renderer and returns, and the
\* characters of one call never take two routes.
C29_RouteChosenAtStart ==
    /\ \A t \in Contexts : pc[t] # "panicked"
    /\ \A i, j \in 1 .. Len(log) :
           log[i].context = log[j].context => log[i].route = log[j].route

---------------------------------------------------------------------------
(* Properties of LoopManager, checked under SpecLoop *)

\* the step in which context t's alloc_id runs under the lock and returns
AllocIdReturns(t) ==
    /\ lc[t].fn = "alloc_id"
    /\ lc[t].pc = "locked"
    /\ lc'[t].pc = "done"

\* C34: alloc_id returns the lowest-numbered free id in 0 .. 7, marks it
\* allocated and records its name; it returns None iff all 8 ids are
\* allocated; under any interleaving of concurrent calls no id is handed out
\* twice without a free_id of that id in between.
C34_AllocLowestFree ==
    [][\A t \in LoopContexts :
         AllocIdReturns(t) =>
             LET free == {i \in LoopIds : ~id_bmp[i]}
             IN  IF free = {}
                 THEN /\ lc'[t].out = <<NoDevName>>
                      /\ id_bmp' = id_bmp
                      /\ devname' = devname
                 ELSE \E i \in free :
                      /\ \A j \in free : i <= j
                      /\ lc'[t].out = <<FormatName(i)>>
                      /\ id_bmp' = [id_bmp EXCEPT ![i] = TRUE]
                      /\ devname' = [devname EXCEPT ![i] = <<FormatName(i)>>]
                      /\ i \notin held
                      /\ ~lc'[t].again]_vars

\* C34 witness: with all 8 ids allocated one alloc_id has returned None, and
\* after a free_id of id 0 another has handed out id 0 again.
C34_NoneThenReuse ==
    /\ \A i \in LoopIds : id_bmp[i]
    /\ lc[1].fn = "alloc_id" /\ lc[1].pc = "done" /\ lc[1].out = <<NoDevName>>
    /\ lc[2].fn = "alloc_id" /\ lc[2].pc = "done" /\ lc[2].out = <<FormatName(0)>>

\* C35 (as claimed): whenever no call is in progress the allocation bitmap and
\* the name table agree: bit i of id_bmp is set iff devname[i] is present.
C35_BitmapAgreesWithNames ==
    (\A t \in LoopContexts : AtRest(t)) =>
        \A i \in LoopIds : id_bmp[i] <=> devname[i] # <<>>

---------------------------------------------------------------------------
(* Properties of loop device creation, checked under SpecLoopInit *)

\* C36: loop ids are consumed by every creation attempt and never released,
\* also when the creation fails after its id was allocated: once loop_init has
\* made its 8 creation attempts every id is allocated, and every
\* create_loop_device call made from then on fails with ENOMEM.
C36_IdsNeverReleased ==
    /\ held = {i \in LoopIds : id_bmp[i]}
    /\ Cardinality(held) >= attempts
    /\ attempts = MAX_DEVICES => \A i \in LoopIds : id_bmp[i]
    /\ \A t \in LoopContexts :
           (lc[t].fn = "create_loop_device" /\ lc[t].late /\ lc[t].pc = "done") =>
               lc[t].out = <<ENOMEM>>

\* C36 witness: loop_init has made its 8 attempts, the last of which failed
\* in devfs_register with its id allocated, and a create_loop_device call
\* started after them has returned ENOMEM.
C36_CreateAfterInitFails ==
    /\ attempts = MAX_DEVICES
    /\ lc[1].pc = "done"
    /\ lc[1].out = <<"devfs_register">>
    /\ lc[2].fn = "create_loop_device"
    /\ lc[2].late
    /\ lc[2].pc = "done"
    /\ lc[2].out = <<ENOMEM>>

---------------------------------------------------------------------------
(* Properties of a loop device's read_only flag, checked under SpecLoopDev *)

\* C37: write_at_sync on a loop device whose read_only flag is set returns
\* EROFS and never invokes the backing file's write, for every block range;
\* the flag observed is the one set by the most recent set_read_only call.
C37_ReadOnlyRefusesWrites ==
    /\ read_only = last_set
    /\ \A t \in LoopContexts :
           lc[t].fn = "write_at_sync" =>
               /\ lc[t].pc = "write" => lc[t].seen = last_set
               /\ lc[t].pc = "done" =>
                      /\ lc[t].seen => lc[t].out = <<EROFS>> /\ ~lc[t].wrote
                      /\ lc[t].wrote => ~lc[t].seen /\ ~lc[t].flag

\* C37 witness: set_read_only(true) was called and a write of blocks 1 .. 2
\* that followed it returned EROFS with no call of the backing file's write.
C37_RefusedAfterSet ==
    /\ lc[1].fn = "write_at_sync"
    /\ lc[1].pc = "done"
    /\ lc[1].arg = <<1, 2>>
    /\ lc[1].seen
    /\ lc[1].out = <<EROFS>>
    /\ ~lc[1].wrote
    /\ lc[2].fn = "set_read_only"
    /\ lc[2].arg = <<TRUE>>
    /\ read_only

---------------------------------------------------------------------------
(* Properties of initialization, checked under SpecInit *)

\* C15 (as claimed): initialization is exactly-once. At most one call, the
\* first, constructs and stores a console; every other call, after the first
\* or racing with it, ends in a panic and neither creates nor replaces one.
C15_InitExactlyOnce ==
    /\ Cardinality(created) <= 1
    /\ \A t \in InitContexts : ipc[t] = "panicked" => framework # [by |-> t]

=============================================================================
